---- MODULE Spec2Model ----
(***************************************************************************)
(* Model of the iterative mesh-deformation decoder of vox2organ_cycle:     *)
(*   - GraphDecoder (src/src/models/graph_net.py): construction checks and *)
(*     the forward loop over decoder steps,                                *)
(*   - MeshesOfMeshes (src/src/utils/mesh.py): the padded/packed container,*)
(*   - pack / unpack (src/vox2organ/utils/utils_padded_packed.py).         *)
(*                                                                         *)
(* Tensors are sequences: a (B,V,C) tensor is a sequence over the batch of *)
(* sequences over the vertices of rows, a row a sequence of numbers.       *)
(* Vertex indices inside faces are 0-based, as in the code.  Real numbers  *)
(* are fixed-point integers in units of 1/Unit, so that the edge midpoints *)
(* taken by unpooling are exact.                                           *)
(***************************************************************************)
EXTENDS Integers, Sequences, FiniteSets, TLC

VARIABLES
    dec,    \* the GraphDecoder object (NoObject before construction)
    call,   \* the last operation: its name, its arguments and its outcome
    pc,     \* position of the decoder's control flow
    fw,     \* locals of the running forward(): batch_size, i, pred_meshes, ...
    ret,    \* what the last completed forward() returned
    up,     \* the unpooling block applied on its own: input and output
    pk,     \* pack/unpack round trip: input, padded view, output
    mom,    \* the MeshesOfMeshes object
    smp     \* feature sampling on its own: map, position and sampled value

vars == <<dec, call, pc, fw, ret, up, pk, mom, smp>>

(***************************************************************************)
(* Bounds of the model.                                                    *)
(***************************************************************************)
\* most decoder steps of a drawn configuration
MaxSteps == 2
\* largest batch size a forward() is called with
MaxBatch == 2
\* a step that would unpool to more faces than this is not explored
MaxFaces == 80
\* fractional bits of the fixed-point numbers
FracBits == 4
\* latent feature values are Unit * (0..FeatMod-1)
FeatMod == 5
Unit == 2 ^ FracBits

(***************************************************************************)
(* Optional values: None, or Some(x).                                      *)
(***************************************************************************)
None == [isNone |-> TRUE]
Some(x) == [isNone |-> FALSE, val |-> x]

NoObject == [exists |-> FALSE]

(***************************************************************************)
(* Tensor helpers.                                                         *)
(***************************************************************************)
RECURSIVE SumSeq(_)
\* torch.sum over a 1-D tensor
SumSeq(s) ==
    IF s = <<>> THEN 0 ELSE Head(s) + SumSeq(Tail(s))

RECURSIVE SumOver(_, _)
\* sum of f[q] over the elements q of a finite set
SumOver(f, S) ==
    IF S = {} THEN 0
    ELSE LET q == CHOOSE x \in S : TRUE
         IN  f[q] + SumOver(f, S \ {q})

\* t[:, :, a:b] on a (B,V,C) tensor, a and b 0-based, b exclusive
SliceCols(t, a, b) ==
    [n \in 1..Len(t) |-> [v \in 1..Len(t[n]) |-> SubSeq(t[n][v], a + 1, b)]]

\* rows[:, a:b] on a packed (R,C) tensor
SliceRows(rows, a, b) ==
    [k \in 1..Len(rows) |-> SubSeq(rows[k], a + 1, b)]

\* a bound k of a slice over n elements, as Python reads it: a bound below
\* zero counts from the end, and every bound is cut to the range 0..n
SliceBound(k, n) ==
    LET fromEnd == IF k < 0 THEN k + n ELSE k
    IN  IF fromEnd < 0 THEN 0 ELSE IF fromEnd > n THEN n ELSE fromEnd

\* torch.cat(batch_size * [t], dim=0) for a tensor t whose first dimension
\* is 1; torch.cat refuses an empty list of tensors
Replicate(t, batch_size) ==
    IF batch_size = 0 THEN [outcome |-> "RuntimeError"]
    ELSE [outcome |-> "ok", t |-> [n \in 1..batch_size |-> t[1]]]

\* torch.cat((a, b), dim=1) on packed tensors with the same number of rows
CatRows(a, b) ==
    [k \in 1..Len(a) |-> a[k] \o b[k]]

\* torch.cat((a, b, c), dim=2) on (B,V,.) tensors
CatPadded3(a, b, c) ==
    [n \in 1..Len(a) |-> [v \in 1..Len(a[n]) |-> a[n][v] \o b[n][v] \o c[n][v]]]

\* packed.view(batch_size, n_verts, -1)
ViewPadded(rows, batch_size, n_verts) ==
    [n \in 1..batch_size |-> [v \in 1..n_verts |-> rows[(n - 1) * n_verts + v]]]

\* a + b on packed tensors of the same shape
AddRows(a, b) ==
    [k \in 1..Len(a) |-> [c \in 1..Len(a[k]) |-> a[k][c] + b[k][c]]]

(***************************************************************************)
(* pytorch3d.structures.Meshes, built from padded tensors in which every   *)
(* batch member has the same number of vertices and of faces.              *)
(***************************************************************************)
Meshes(verts, faces) == [verts |-> verts, faces |-> faces]

Meshes_verts_padded(m) == m.verts

Meshes_faces_padded(m) == m.faces

\* number of vertices / faces of batch member n
NumVerts(m, n) == Len(m.verts[n])

NumFaces(m, n) == Len(m.faces[n])

\* Meshes.verts_packed(): the batch members' vertex rows, one after the other
Meshes_verts_packed(m) ==
    LET V == IF Len(m.verts) = 0 THEN 0 ELSE Len(m.verts[1])
    IN  [k \in 1..(Len(m.verts) * V) |-> m.verts[((k - 1) \div V) + 1][((k - 1) % V) + 1]]

\* the two ends of an undirected edge, smaller index first
SortedPair(a, b) == IF a <= b THEN <<a, b>> ELSE <<b, a>>

\* Meshes.edges_packed(): the unique undirected edges of all batch members,
\* the indices of member n offset by the vertices packed before it.  The edge
\* set is held as the neighbour sets of the packed vertices (0-based): q is
\* in edges[p + 1] exactly if {p, q} is an edge of some face.
Meshes_edges_packed(m) ==
    LET V == IF Len(m.verts) = 0 THEN 0 ELSE Len(m.verts[1])
    IN  [k \in 1..(Len(m.verts) * V) |->
            LET n == ((k - 1) \div V) + 1
                v == (k - 1) % V
            IN  { q + (n - 1) * V :
                  q \in UNION { {m.faces[n][f][1], m.faces[n][f][2], m.faces[n][f][3]} :
                                f \in {g \in 1..Len(m.faces[n]) :
                                          \/ m.faces[n][g][1] = v
                                          \/ m.faces[n][g][2] = v
                                          \/ m.faces[n][g][3] = v} } \ {v} }] \o <<>>

(***************************************************************************)
(* Uniform unpooling (utils.utils_voxel2mesh.unpooling.uniform_unpool).    *)
(***************************************************************************)
\* the three undirected edges of a triangle, in the order (v0,v1), (v1,v2), (v2,v0)
FaceEdges(f) ==
    << SortedPair(f[1], f[2]), SortedPair(f[2], f[3]), SortedPair(f[3], f[1]) >>

\* all edges met when scanning the faces in order; an edge shared by k faces is met k times
EdgeScan(faces) ==
    [k \in 1..(3 * Len(faces)) |-> FaceEdges(faces[((k - 1) \div 3) + 1])[((k - 1) % 3) + 1]] \o <<>>

\* positions of the scan at which an edge is met for the first time
FirstOcc(E) ==
    {k \in DOMAIN E : \A j \in 1..(k - 1) : E[j] # E[k]}

\* the edges of scan E without repetition, in the order of their first occurrence
UniqueFrom(E) ==
    LET firsts == FirstOcc(E)
        \* position r of the result holds the r-th smallest first occurrence
        nth == [r \in 1..Cardinality(firsts) |->
                   CHOOSE k \in firsts : Cardinality({j \in firsts : j < k}) = r - 1] \o <<>>
    IN  [r \in 1..Len(nth) |-> E[nth[r]]] \o <<>>

\* the unique edges of a face list in the order of their first occurrence
UniqueEdgeSeq(faces) == UniqueFrom(EdgeScan(faces))

\* arithmetic mean of two feature rows
MeanRow(a, b) ==
    [c \in 1..Len(a) |-> (a[c] + b[c]) \div 2] \o <<>>

\* a subdivision that repeats the first corner triangle in place of the
\* centre triangle
SubFaces_NoCentre(f, mid) ==
    LET m01 == mid[SortedPair(f[1], f[2])]
        m12 == mid[SortedPair(f[2], f[3])]
        m20 == mid[SortedPair(f[3], f[1])]
    IN  << <<f[1], m01, m20>>, <<f[2], m12, m01>>, <<f[3], m20, m12>>, <<f[1], m01, m20>> >>

\* the four triangles that replace triangle f, mid giving the index of the
\* vertex inserted on an edge
SubFaces(f, mid) ==
    LET m01 == mid[SortedPair(f[1], f[2])]
        m12 == mid[SortedPair(f[2], f[3])]
        m20 == mid[SortedPair(f[3], f[1])]
    IN  << <<f[1], m01, m20>>, <<f[2], m12, m01>>, <<f[3], m20, m12>>, <<m01, m12, m20>> >>

\* the mesh unpooled, U being its unique edges: one new vertex per edge of U,
\* at the mean of its two ends, appended after the existing vertices in the
\* order of U; every triangle replaced by three corner triangles and the
\* centre triangle of its midpoints
UnpoolWith(verts, faces, U) ==
    LET mid == [e \in {U[r] : r \in 1..Len(U)} |->
                   Len(verts) + (CHOOSE r \in 1..Len(U) : U[r] = e) - 1]
    IN  << verts \o [r \in 1..Len(U) |-> MeanRow(verts[U[r][1] + 1], verts[U[r][2] + 1])],
           [k \in 1..(4 * Len(faces)) |->
               SubFaces(faces[((k - 1) \div 4) + 1], mid)[((k - 1) % 4) + 1]] \o <<>> >>

\* unpooling of one mesh
UnpoolOne(verts, faces) == UnpoolWith(verts, faces, UniqueEdgeSeq(faces))

\* uniform_unpool(vertices_, faces_, identical_face_batch=False): every batch
\* member is unpooled against its own face list
uniform_unpool(vertices_, faces_) ==
    LET res == [n \in 1..Len(vertices_) |-> UnpoolOne(vertices_[n], faces_[n])] \o <<>>
    IN  << [n \in 1..Len(res) |-> res[n][1]] \o <<>>,
           [n \in 1..Len(res) |-> res[n][2]] \o <<>> >>

(***************************************************************************)
(* Template meshes (the .obj files read at construction), as read_obj      *)
(* returns them: the coordinates of the file in fixed-point units.  The    *)
(* constructor (line 141) then puts every vertex on the unit sphere.       *)
(***************************************************************************)
ScaleRow(r) == [c \in 1..Len(r) |-> Unit * r[c]]

TetraVerts == << <<1, 1, 1>>, <<1, -1, -1>>, <<-1, 1, -1>>, <<-1, -1, 1>> >>

TetraFaces == << <<0, 1, 2>>, <<0, 3, 1>>, <<0, 2, 3>>, <<1, 3, 2>> >>

IcoVerts ==
    << <<-1, 2, 0>>, <<1, 2, 0>>, <<-1, -2, 0>>, <<1, -2, 0>>,
       <<0, -1, 2>>, <<0, 1, 2>>, <<0, -1, -2>>, <<0, 1, -2>>,
       <<2, 0, -1>>, <<2, 0, 1>>, <<-2, 0, -1>>, <<-2, 0, 1>> >>

IcoFaces ==
    << <<0, 11, 5>>, <<0, 5, 1>>, <<0, 1, 7>>, <<0, 7, 10>>, <<0, 10, 11>>,
       <<1, 5, 9>>, <<5, 11, 4>>, <<11, 10, 2>>, <<10, 7, 6>>, <<7, 1, 8>>,
       <<3, 9, 4>>, <<3, 4, 2>>, <<3, 2, 6>>, <<3, 6, 8>>, <<3, 8, 9>>,
       <<4, 9, 5>>, <<2, 4, 11>>, <<6, 2, 10>>, <<8, 6, 7>>, <<9, 8, 1>> >>

\* the template files a decoder can be constructed from: a tetrahedron, a
\* tetrahedron and its mirror image as two separate structures of one file,
\* and an icosahedron
TemplateNames == {"tetra", "twotetra", "ico"}

read_obj(mesh_template) ==
    CASE mesh_template = "tetra" ->
            [verts |-> [v \in 1..4 |-> ScaleRow(TetraVerts[v])], faces |-> TetraFaces]
      [] mesh_template = "twotetra" ->
            [verts |-> [v \in 1..8 |->
                           IF v <= 4 THEN ScaleRow(TetraVerts[v])
                           ELSE ScaleRow([c \in 1..3 |-> 0 - TetraVerts[v - 4][c]])],
             faces |-> [f \in 1..8 |->
                           IF f <= 4 THEN TetraFaces[f]
                           ELSE [c \in 1..3 |-> TetraFaces[f - 4][c] + 4]]]
      [] mesh_template = "ico" ->
            [verts |-> [v \in 1..12 |-> ScaleRow(IcoVerts[v])], faces |-> IcoFaces]

(***************************************************************************)
(* Graph convolutions (utils.utils_voxel2meshplusplus.graph_conv).  The    *)
(* message-passing formula is pluggable; the model uses one linear         *)
(* convolution: every output channel of a vertex is a weighted sum of its  *)
(* own features and of its neighbours' features plus a bias, folded into   *)
(* the range of the latent values.  Edge weighting is part of the weights. *)
(***************************************************************************)
Wzero == [self |-> 0, nbr |-> 0, bias |-> 0]

Wone == [self |-> 1, nbr |-> 1, bias |-> 1]

\* GC(in, out, weighted_edges=...): a layer with its parameters
GC(in, out, weighted_edges, w) ==
    [kind |-> "GC", in |-> in, out |-> out, weighted_edges |-> weighted_edges, w |-> w]

\* Features2FeaturesResidual(in, out, ...): a residual block
Features2FeaturesResidual(in, out, weighted_edges) ==
    [kind |-> "Residual", in |-> in, out |-> out, weighted_edges |-> weighted_edges, w |-> Wone]

\* Features2FeaturesSimple(in, out, ...): the connector between two steps
Features2FeaturesSimple(in, out, weighted_edges) ==
    [kind |-> "Simple", in |-> in, out |-> out, weighted_edges |-> weighted_edges, w |-> Wone]

\* GraphIdLayer(): returns its input features unchanged
GraphIdLayer == [kind |-> "Id"]

\* whether the rows handed to a layer have the width the layer was built for
LayerAccepts(layer, X) ==
    layer.kind = "Id" \/ \A k \in 1..Len(X) : Len(X[k]) = layer.in

\* layer(features_packed, edges_packed)
ApplyLayer(layer, X, edges) ==
    IF layer.kind = "Id" THEN X
    ELSE
    LET n == Len(X)
        tot == [p \in 1..n |-> SumSeq(X[p])] \o <<>>
        s == [p \in 1..n |->
                 layer.w.self * tot[p]
                 + (IF layer.w.nbr = 0 THEN 0
                    ELSE layer.w.nbr * SumOver([q \in edges[p] |-> tot[q + 1]], edges[p]))
                 + layer.w.bias] \o <<>>
    IN  [p \in 1..n |-> [c \in 1..layer.out |-> Unit * ((c * s[p]) % FeatMod)] \o <<>>] \o <<>>

RECURSIVE ApplyLayers(_, _, _)
\* for f2f in f2f_res: latent = f2f(latent, edges)
ApplyLayers(layers, X, edges) ==
    IF layers = <<>> THEN X
    ELSE ApplyLayers(Tail(layers), ApplyLayer(Head(layers), X, edges), edges)

\* whether every layer of the chain accepts what it is handed
RECURSIVE LayersAccept(_, _, _)
LayersAccept(layers, X, edges) ==
    IF layers = <<>> THEN TRUE
    ELSE LayerAccepts(Head(layers), X)
         /\ LayersAccept(Tail(layers), ApplyLayer(Head(layers), X, edges), edges)

(***************************************************************************)
(* Feature aggregation (utils.utils_voxel2meshplusplus.feature_aggregation)*)
(* The feature maps of the model are constant in space, so that sampling a *)
(* map at any vertex position returns the map's feature vector of that     *)
(* batch member.                                                           *)
(***************************************************************************)
\* channel counts of the feature maps the encoder hands over
SkipChannels == <<1, 1, 2>>

\* the feature maps of a batch: skips[k][n] is the feature vector of map k-1
\* for batch member n
SkipMaps(batch_size) ==
    [k \in 1..Len(SkipChannels) |->
        [n \in 1..batch_size |->
            [c \in 1..SkipChannels[k] |-> Unit * ((n + k + c) % FeatMod)]]]

RECURSIVE SampleAll(_, _, _)
\* the sampled feature vectors of the maps listed in agg_indices, concatenated
SampleAll(skips, agg_indices, n) ==
    IF agg_indices = <<>> THEN <<>>
    ELSE skips[Head(agg_indices) + 1][n] \o SampleAll(skips, Tail(agg_indices), n)

\* aggregate_from_indices(skips, vertices_padded, agg_indices, mode)
aggregate_from_indices(skips, vertices_padded, agg_indices) ==
    [n \in 1..Len(vertices_padded) |->
        [v \in 1..Len(vertices_padded[n]) |-> SampleAll(skips, agg_indices, n)]]

(***************************************************************************)
(* GraphDecoder.__init__                                                   *)
(***************************************************************************)
\* default of the constructor's parameter n_residual_blocks
NResidualBlocks == 3

\* dimension of the vertex coordinates (parameter dim)
Dim == 3

\* a length check that forgets that the first channel width is not a step
LengthsMatch_NoInitialWidth(graph_channels, aggregate_indices, unpool_indices) ==
    /\ Len(graph_channels) = Len(aggregate_indices)
    /\ Len(aggregate_indices) = Len(unpool_indices)

\* a constructor without the edge-weighing check
EdgeWeightsAllowed_Unchecked(weighted_edges, propagate_coords) == TRUE

\* lines 49-53: the assertion on the three lengths
LengthsMatch(graph_channels, aggregate_indices, unpool_indices) ==
    /\ Len(graph_channels) - 1 = Len(aggregate_indices)
    /\ Len(aggregate_indices) = Len(unpool_indices)

\* lines 55-57: edge weighting needs the coordinates
EdgeWeightsAllowed(weighted_edges, propagate_coords) ==
    ~(weighted_edges /\ ~propagate_coords)

\* lines 148-153: the check of the unpool_indices setter
UnpoolIndicesValid(indices, num_steps) ==
    Len(indices) = num_steps

\* lines 82-85
AddN(propagate_coords) == IF propagate_coords THEN 3 ELSE 0

\* lines 89-92: skip_channels[a:b+1] summed; a bound below zero counts from
\* the list's end, and the slice is cut at the list's ends
SkipFeaturesCount(skip_channels, agg) ==
    LET lo == SliceBound(agg[1], Len(skip_channels))
        hi == SliceBound(agg[2] + 1, Len(skip_channels))
    IN  SumSeq(SubSeq(skip_channels, lo + 1, hi))

\* lines 89-90 read aggregate_indices[i][0] and aggregate_indices[i][1] of
\* every step: an index set with fewer than two entries cannot be read
AggIndicesReadable(aggregate_indices) ==
    \A i \in 1..Len(aggregate_indices) : Len(aggregate_indices[i]) >= 2

\* lines 93-113: the residual blocks of step i (0-based)
ResBlocks(a, i) ==
    << Features2FeaturesResidual(
           SkipFeaturesCount(a.skip_channels, a.aggregate_indices[i + 1])
               + a.graph_channels[i + 1] + AddN(a.propagate_coords),
           a.graph_channels[i + 2], a.weighted_edges) >>
    \o [b \in 1..(NResidualBlocks - 1) |->
           Features2FeaturesResidual(a.graph_channels[i + 2], a.graph_channels[i + 2], FALSE)]

\* lines 116-119: the feature-to-vertex layer of step i; its parameters are
\* a.f2v_zero[i+1] (all zero, or not)
F2V(a, i) ==
    GC(a.graph_channels[i + 2], Dim, FALSE, IF a.f2v_zero[i + 1] THEN Wzero ELSE Wone)

\* lines 121-131: the connector of step i
Connect(a, i, num_steps) ==
    IF i < num_steps - 1
    THEN Features2FeaturesSimple(a.graph_channels[i + 2] + AddN(a.propagate_coords),
                                 a.graph_channels[i + 2], a.weighted_edges)
    ELSE GraphIdLayer

\* the float that is not a number
NaN == "nan"

\* line 141, one coordinate: x / sqrt(s), s the sum of the squares of the
\* vertex's coordinates, as the nearest multiple of 1/Unit (n - 1/2 <=
\* Unit * |x| / sqrt(s) exactly when (2n-1)^2 * s <= 4 * Unit^2 * x^2); a
\* vertex at the origin has s = 0, and 0 / 0 is not a number
UnitCoordinate(x, s) ==
    IF s = 0 THEN NaN
    ELSE (IF x < 0 THEN 0 - 1 ELSE 1)
             * Cardinality({k \in 1..Unit :
                               (2 * k - 1) * (2 * k - 1) * s <= 4 * Unit * Unit * x * x})

\* line 141: every vertex divided by its Euclidean norm
NormaliseVerts(verts) ==
    [v \in 1..Len(verts) |->
        [c \in 1..Len(verts[v]) |->
            UnitCoordinate(verts[v][c],
                           SumSeq([k \in 1..Len(verts[v]) |-> verts[v][k] * verts[v][k]]))]]

\* lines 59-142: the object a successful construction leaves
NewDecoder(a) ==
    LET num_steps == Len(a.graph_channels) - 1
        obj == read_obj(a.mesh_template)
    IN  [exists |-> TRUE,
         latent_features_count |-> a.graph_channels,
         num_steps |-> num_steps,
         aggregate_indices |-> a.aggregate_indices,
         unpool_indices |-> a.unpool_indices,
         use_adoptive_unpool |-> a.use_adoptive_unpool,
         propagate_coords |-> a.propagate_coords,
         graph_conv_first |-> GC(Dim, a.graph_channels[1], a.weighted_edges, Wone),
         f2f_res_layers |-> [i \in 1..num_steps |-> ResBlocks(a, i - 1)],
         f2f_connect_layers |-> [i \in 1..num_steps |-> Connect(a, i - 1, num_steps)],
         f2v_layers |-> [i \in 1..num_steps |-> F2V(a, i - 1)],
         sphere_vertices |-> <<NormaliseVerts(obj.verts)>>,
         sphere_faces |-> <<obj.faces>>]

\* a constructor that refuses adaptive unpooling, as a configuration error
GraphDecoderInit_RefusesAdaptive(a) ==
    IF ~LengthsMatch(a.graph_channels, a.aggregate_indices, a.unpool_indices)
    THEN [outcome |-> "AssertionError", obj |-> NoObject, created |-> {}]
    ELSE IF ~EdgeWeightsAllowed(a.weighted_edges, a.propagate_coords)
    THEN [outcome |-> "ValueError: edge weighing", obj |-> NoObject, created |-> {}]
    ELSE IF a.use_adoptive_unpool
    THEN [outcome |-> "NotImplementedError", obj |-> NoObject, created |-> {}]
    ELSE IF ~AggIndicesReadable(a.aggregate_indices)
    THEN [outcome |-> "IndexError", obj |-> NoObject, created |-> {"layers"}]
    ELSE [outcome |-> "ok", obj |-> NewDecoder(a), created |-> {"layers", "template"}]

\* GraphDecoder.__init__: the outcome, the object, and what had been created
\* when the constructor ended
GraphDecoderInit(a) ==
    IF ~LengthsMatch(a.graph_channels, a.aggregate_indices, a.unpool_indices)
    THEN [outcome |-> "AssertionError", obj |-> NoObject, created |-> {}]
    ELSE IF ~EdgeWeightsAllowed(a.weighted_edges, a.propagate_coords)
    THEN [outcome |-> "ValueError: edge weighing", obj |-> NoObject, created |-> {}]
    ELSE IF ~UnpoolIndicesValid(a.unpool_indices, Len(a.graph_channels) - 1)
    THEN [outcome |-> "ValueError: unpool indices", obj |-> NoObject, created |-> {}]
    ELSE IF ~AggIndicesReadable(a.aggregate_indices)
    THEN [outcome |-> "IndexError", obj |-> NoObject, created |-> {"layers"}]
    ELSE [outcome |-> "ok", obj |-> NewDecoder(a), created |-> {"layers", "template"}]

(***************************************************************************)
(* GraphDecoder.forward                                                    *)
(***************************************************************************)
\* lines 168-189: the template replicated over the batch, the first graph
\* convolution, and the initial mesh with the coordinates as trailing
\* channels; line 169 raises for a batch without members
InitialMeshes(d, batch_size) ==
    LET replicated == Replicate(d.sphere_vertices, batch_size)
    IN  IF replicated.outcome # "ok" THEN [outcome |-> replicated.outcome]
        ELSE LET temp_vertices == replicated.t
                 temp_faces == Replicate(d.sphere_faces, batch_size).t
                 temp_meshes == Meshes(temp_vertices, temp_faces)
                 edges == Meshes_edges_packed(temp_meshes)
                 packed == Meshes_verts_packed(temp_meshes) \o <<>>
                 latent_features == ApplyLayer(d.graph_conv_first, packed, edges)
                 features_verts == CatRows(latent_features, packed) \o <<>>
             IN  [outcome |-> "ok",
                  meshes |-> Meshes(ViewPadded(features_verts, batch_size, Len(temp_vertices[1])),
                                    temp_faces)]

\* an unpooling block that inserts the vertices but keeps the face list of
\* the previous mesh
UnpoolBlock_KeepsFaces(vertices_padded, latent_features_padded, faces_padded) ==
    [vertices_padded |-> uniform_unpool(vertices_padded, faces_padded)[1],
     latent_features_padded |-> uniform_unpool(latent_features_padded, faces_padded)[1],
     faces_padded |-> faces_padded]

\* the faces of every batch member, last face first
FacesReversed(faces_padded) ==
    [n \in 1..Len(faces_padded) |->
        [f \in 1..Len(faces_padded[n]) |->
            faces_padded[n][Len(faces_padded[n]) - f + 1]]] \o <<>>

\* an unpooling block that unpools the latent features against another
\* face list than the positions
UnpoolBlock_LatentOtherFaces(vertices_padded, latent_features_padded, faces_padded) ==
    [vertices_padded |-> uniform_unpool(vertices_padded, faces_padded)[1],
     latent_features_padded |->
         uniform_unpool(latent_features_padded, FacesReversed(faces_padded))[1],
     faces_padded |-> uniform_unpool(vertices_padded, faces_padded)[2]]

\* lines 209-221: positions and latent features are unpooled against the
\* faces of the previous mesh; the faces returned with the positions are kept
UnpoolBlock(vertices_padded, latent_features_padded, faces_padded) ==
    LET pos == uniform_unpool(vertices_padded, faces_padded)
        lat == uniform_unpool(latent_features_padded, faces_padded)
    IN  [vertices_padded |-> pos[1], latent_features_padded |-> lat[1],
         faces_padded |-> pos[2]]

\* a decoder that unpools at every step, whatever the step's flag
DoUnpool_Always(do_unpool) == TRUE

\* line 209: whether step i's flag asks for unpooling
DoUnpool(do_unpool) == do_unpool = 1

\* lines 203-207: positions (the trailing three channels), latent features
\* (all channels before them) and faces of the previous mesh
ReadPrev(prev_meshes) ==
    LET width == Len(Meshes_verts_padded(prev_meshes)[1][1])
    IN  [vertices_padded |-> SliceCols(Meshes_verts_padded(prev_meshes), width - 3, width),
         latent_features_padded |-> SliceCols(Meshes_verts_padded(prev_meshes), 0, width - 3),
         faces_padded |-> Meshes_faces_padded(prev_meshes)]

\* a step input in which every batch member after the first lists the
\* corners of its triangles from the second corner on
StepInput_RotatedMembers(d, prev_meshes, i) ==
    LET inp == IF DoUnpool(d.unpool_indices[i + 1])
               THEN UnpoolBlock(ReadPrev(prev_meshes).vertices_padded,
                                ReadPrev(prev_meshes).latent_features_padded,
                                ReadPrev(prev_meshes).faces_padded)
               ELSE ReadPrev(prev_meshes)
    IN  [inp EXCEPT !.faces_padded =
            [n \in 1..Len(inp.faces_padded) |->
                IF n = 1 THEN inp.faces_padded[n]
                ELSE [f \in 1..Len(inp.faces_padded[n]) |->
                         <<inp.faces_padded[n][f][2], inp.faces_padded[n][f][3],
                           inp.faces_padded[n][f][1]>>]]]

\* the rows of a batch of per-vertex rows, last vertex first
RowsReversed(padded) ==
    [n \in 1..Len(padded) |->
        [v \in 1..Len(padded[n]) |-> padded[n][Len(padded[n]) - v + 1]]] \o <<>>

\* a step input whose unpooled vertices are numbered from the inserted ones
\* down to the old ones
StepInput_Renumbered(d, prev_meshes, i) ==
    IF DoUnpool(d.unpool_indices[i + 1])
    THEN [vertices_padded |->
              RowsReversed(UnpoolBlock(ReadPrev(prev_meshes).vertices_padded,
                                       ReadPrev(prev_meshes).latent_features_padded,
                                       ReadPrev(prev_meshes).faces_padded).vertices_padded),
          latent_features_padded |->
              RowsReversed(UnpoolBlock(ReadPrev(prev_meshes).vertices_padded,
                                       ReadPrev(prev_meshes).latent_features_padded,
                                       ReadPrev(prev_meshes).faces_padded).latent_features_padded),
          faces_padded |->
              UnpoolBlock(ReadPrev(prev_meshes).vertices_padded,
                          ReadPrev(prev_meshes).latent_features_padded,
                          ReadPrev(prev_meshes).faces_padded).faces_padded]
    ELSE ReadPrev(prev_meshes)

\* lines 203-221: what step i (0-based) works on: the previous mesh, unpooled
\* when the step is flagged
StepInput(d, prev_meshes, i) ==
    IF DoUnpool(d.unpool_indices[i + 1])
    THEN UnpoolBlock(ReadPrev(prev_meshes).vertices_padded,
                     ReadPrev(prev_meshes).latent_features_padded,
                     ReadPrev(prev_meshes).faces_padded)
    ELSE ReadPrev(prev_meshes)

\* lines 223-238: the mesh whose vertex rows are (latent features, aggregated
\* voxel features, position)
StepFeatures(d, skips, i, inp) ==
    Meshes(CatPadded3(inp.latent_features_padded,
                      aggregate_from_indices(skips, inp.vertices_padded,
                                             d.aggregate_indices[i + 1]),
                      inp.vertices_padded),
           inp.faces_padded)

\* a displacement stage that reads the leading instead of the trailing
\* three channels as the position
MoveVertices_LeadingChannels(input_packed, deltaV_packed) ==
    AddRows(SliceRows(input_packed, 0, 3), deltaV_packed)

\* lines 248-252: the displaced positions, from the trailing three channels
\* of the step's input rows
MoveVertices(input_packed, deltaV_packed) ==
    AddRows(SliceRows(input_packed, Len(input_packed[1]) - 3, Len(input_packed[1])),
            deltaV_packed)

\* an emitting stage that emits the mesh of an unpooling step also when
\* adaptive unpooling is enabled
StepEmit_AdaptiveEmits(d, i, batch_size, faces, edges, ok, latent_res, deltaV_packed, vertices_packed) ==
    IF ~ok \/ ~LayerAccepts(d.f2f_connect_layers[i + 1],
                            IF d.propagate_coords THEN CatRows(latent_res, vertices_packed)
                            ELSE latent_res)
    THEN [outcome |-> "RuntimeError"]
    ELSE [outcome |-> "ok",
          new_meshes |->
              Meshes(ViewPadded(CatRows(ApplyLayer(d.f2f_connect_layers[i + 1],
                                                   IF d.propagate_coords
                                                   THEN CatRows(latent_res, vertices_packed)
                                                   ELSE latent_res, edges),
                                        vertices_packed) \o <<>>,
                                batch_size, Len(vertices_packed) \div batch_size),
                     faces),
          deltaV_padded |-> ViewPadded(deltaV_packed, batch_size,
                                       Len(vertices_packed) \div batch_size)]

\* lines 254-282: the connector, the emitted mesh, and the refusal of
\* adaptive unpooling
StepEmit(d, i, batch_size, faces, edges, ok, latent_res, deltaV_packed, vertices_packed) ==
    LET latent_cat == IF d.propagate_coords THEN CatRows(latent_res, vertices_packed)
                      ELSE latent_res
        N_new == Len(vertices_packed) \div batch_size
    IN  IF ~ok \/ ~LayerAccepts(d.f2f_connect_layers[i + 1], latent_cat)
        THEN [outcome |-> "RuntimeError"]
        ELSE IF DoUnpool(d.unpool_indices[i + 1]) /\ d.use_adoptive_unpool
        THEN [outcome |-> "NotImplementedError"]
        ELSE [outcome |-> "ok",
              new_meshes |->
                  Meshes(ViewPadded(CatRows(ApplyLayer(d.f2f_connect_layers[i + 1],
                                                       latent_cat, edges),
                                            vertices_packed) \o <<>>,
                                    batch_size, N_new),
                         faces),
              deltaV_padded |-> ViewPadded(deltaV_packed, batch_size, N_new)]

\* a displacement stage that emits the displacement but leaves the
\* positions where they were
StepMove_PositionsKept(d, i, batch_size, faces, edges, input_packed, ok, latent_res) ==
    StepEmit(d, i, batch_size, faces, edges,
             ok /\ LayerAccepts(d.f2v_layers[i + 1], latent_res),
             latent_res,
             ApplyLayer(d.f2v_layers[i + 1], latent_res, edges),
             SliceRows(input_packed, Len(input_packed[1]) - 3, Len(input_packed[1])) \o <<>>)

\* lines 248-252: the displacement predicted from the latent features
StepMove(d, i, batch_size, faces, edges, input_packed, ok, latent_res) ==
    StepEmit(d, i, batch_size, faces, edges,
             ok /\ LayerAccepts(d.f2v_layers[i + 1], latent_res),
             latent_res,
             ApplyLayer(d.f2v_layers[i + 1], latent_res, edges),
             MoveVertices(input_packed,
                          ApplyLayer(d.f2v_layers[i + 1], latent_res, edges)) \o <<>>)

\* lines 240-246: the residual blocks, on the rows with or without the position
StepConvolve(d, i, batch_size, faces, edges, input_packed) ==
    LET latent_in == IF d.propagate_coords THEN input_packed
                     ELSE SliceRows(input_packed, 0, Len(input_packed[1]) - 3)
    IN  StepMove(d, i, batch_size, faces, edges, input_packed,
                 LayersAccept(d.f2f_res_layers[i + 1], latent_in, edges),
                 ApplyLayers(d.f2f_res_layers[i + 1], latent_in, edges))

\* lines 236-239: the edges and the packed rows of the step's mesh
StepOnMesh(d, i, batch_size, new_meshes) ==
    StepConvolve(d, i, batch_size, Meshes_faces_padded(new_meshes),
                 Meshes_edges_packed(new_meshes), Meshes_verts_packed(new_meshes) \o <<>>)

\* a step that emits its mesh with the face list of the previous mesh
DecoderStep_StaleFaces(d, skips, batch_size, prev_meshes, i) ==
    LET r == StepOnMesh(d, i, batch_size, StepFeatures(d, skips, i, StepInput(d, prev_meshes, i)))
    IN  IF r.outcome = "ok"
        THEN [r EXCEPT !.new_meshes = Meshes(r.new_meshes.verts, prev_meshes.faces)]
        ELSE r

\* a step whose graph convolutions get the edges of the previous mesh's
\* faces, whatever the faces of the step are
DecoderStep_StaleEdges(d, skips, batch_size, prev_meshes, i) ==
    StepConvolve(d, i, batch_size,
                 StepFeatures(d, skips, i, StepInput(d, prev_meshes, i)).faces,
                 Meshes_edges_packed(
                     Meshes(StepFeatures(d, skips, i, StepInput(d, prev_meshes, i)).verts,
                            prev_meshes.faces)),
                 Meshes_verts_packed(StepFeatures(d, skips, i, StepInput(d, prev_meshes, i)))
                     \o <<>>)

\* lines 203-282: one iteration of the loop over the decoder steps
DecoderStep(d, skips, batch_size, prev_meshes, i) ==
    StepOnMesh(d, i, batch_size, StepFeatures(d, skips, i, StepInput(d, prev_meshes, i)))

\* a loop that leaves out the last configured step
NumIterations_DropLast(d) ==
    IF Len(d.unpool_indices) = 0 THEN 0 ELSE Len(d.unpool_indices) - 1

\* the number of iterations of the zip over the five per-step lists
NumIterations(d) ==
    LET lens == {Len(d.f2f_res_layers), Len(d.f2f_connect_layers), Len(d.f2v_layers),
                 Len(d.aggregate_indices), Len(d.unpool_indices)}
    IN  CHOOSE n \in lens : \A m \in lens : n <= m

(***************************************************************************)
(* State machine of one decoder object.                                    *)
(***************************************************************************)
IdleLocals(runs) ==
    [runs |-> runs, batch_size |-> 0, i |-> 0, pred_meshes |-> <<>>, pred_deltaV |-> <<>>]

NoCall == [op |-> "none", outcome |-> "none"]

NoReturn == [returned |-> FALSE]

Idle == [op |-> "none"]

MeshIdle == [op |-> "none", outcome |-> "none", obj |-> NoObject, calls |-> 0]

Init ==
    /\ dec = NoObject
    /\ call = NoCall
    /\ pc = "new"
    /\ fw = IdleLocals(0)
    /\ ret = NoReturn
    /\ up = Idle
    /\ pk = Idle
    /\ mom = MeshIdle
    /\ smp = Idle

\* GraphDecoder(...) with arguments a
Construct(a) ==
    /\ pc = "new"
    /\ LET r == GraphDecoderInit(a)
       IN  /\ dec' = r.obj
           /\ call' = [op |-> "__init__", args |-> a, outcome |-> r.outcome,
                       created |-> r.created]
           /\ pc' = IF r.outcome = "ok" THEN "idle" ELSE "failed"
    /\ UNCHANGED <<fw, ret, up, pk, mom, smp>>

\* decoder.unpool_indices = indices (lines 148-153)
SetUnpoolIndices(indices) ==
    /\ pc = "idle"
    /\ call.op = "__init__"
    /\ IF UnpoolIndicesValid(indices, dec.num_steps)
       THEN /\ dec' = [dec EXCEPT !.unpool_indices = indices]
            /\ call' = [op |-> "unpool_indices", args |-> indices, outcome |-> "ok"]
       ELSE /\ dec' = dec
            /\ call' = [op |-> "unpool_indices", args |-> indices, outcome |-> "ValueError"]
    /\ UNCHANGED <<pc, fw, ret, up, pk, mom, smp>>

\* decoder.use_adoptive_unpool = value (lines 159-162)
SetUseAdoptiveUnpool(value) ==
    /\ pc = "idle"
    /\ call.op = "__init__"
    /\ dec' = [dec EXCEPT !.use_adoptive_unpool = value]
    /\ call' = [op |-> "use_adoptive_unpool", args |-> value, outcome |-> "ok"]
    /\ UNCHANGED <<pc, fw, ret, up, pk, mom, smp>>

\* forward(skips) is entered: lines 165-189; an object receives at most
\* max_runs calls
ForwardBegin(batch_size, max_runs) ==
    /\ pc = "idle"
    /\ fw.runs < max_runs
    /\ LET r == InitialMeshes(dec, batch_size)
       IN  IF r.outcome = "ok"
           THEN /\ fw' = [runs |-> fw.runs + 1, batch_size |-> batch_size, i |-> 0,
                          pred_meshes |-> <<r.meshes>>,
                          pred_deltaV |-> <<None>>]
                /\ call' = [op |-> "forward", args |-> batch_size, outcome |-> "running"]
                /\ pc' = "loop"
           ELSE /\ fw' = IdleLocals(fw.runs + 1)
                /\ call' = [op |-> "forward", args |-> batch_size, outcome |-> r.outcome]
                /\ pc' = "idle"
    /\ UNCHANGED <<dec, ret, up, pk, mom, smp>>

\* an iteration that moves the vertices in place, in storage shared with
\* the template: the template takes the positions of the first batch member
ForwardStep_WritesTemplate ==
    /\ pc = "loop"
    /\ fw.i < NumIterations(dec)
    /\ DoUnpool(dec.unpool_indices[fw.i + 1])
          => 4 * NumFaces(fw.pred_meshes[fw.i + 1], 1) <= MaxFaces
    /\ LET r == DecoderStep(dec, SkipMaps(fw.batch_size), fw.batch_size,
                            fw.pred_meshes[fw.i + 1], fw.i)
       IN  IF r.outcome = "ok"
           THEN /\ fw' = [fw EXCEPT !.i = fw.i + 1,
                                    !.pred_meshes = Append(fw.pred_meshes, r.new_meshes),
                                    !.pred_deltaV = Append(fw.pred_deltaV, Some(r.deltaV_padded))]
                /\ dec' = [dec EXCEPT !.sphere_vertices =
                              <<[v \in 1..Len(r.new_meshes.verts[1]) |->
                                    [c \in 1..3 |->
                                        r.new_meshes.verts[1][v]
                                            [Len(r.new_meshes.verts[1][v]) - 3 + c]]]>>]
                /\ UNCHANGED <<pc, call>>
           ELSE /\ fw' = IdleLocals(fw.runs)
                /\ call' = [op |-> "forward", args |-> call.args,
                            outcome |-> r.outcome, step |-> fw.i]
                /\ pc' = "idle"
                /\ dec' = dec
    /\ UNCHANGED <<ret, up, pk, mom, smp>>

\* an iteration that reads the initial mesh instead of the mesh emitted by
\* the previous step
ForwardStep_FromInitialMesh ==
    /\ pc = "loop"
    /\ fw.i < NumIterations(dec)
    /\ DoUnpool(dec.unpool_indices[fw.i + 1])
          => 4 * NumFaces(fw.pred_meshes[1], 1) <= MaxFaces
    /\ LET r == DecoderStep(dec, SkipMaps(fw.batch_size), fw.batch_size,
                            fw.pred_meshes[1], fw.i)
       IN  IF r.outcome = "ok"
           THEN /\ fw' = [fw EXCEPT !.i = fw.i + 1,
                                    !.pred_meshes = Append(fw.pred_meshes, r.new_meshes),
                                    !.pred_deltaV = Append(fw.pred_deltaV, Some(r.deltaV_padded))]
                /\ UNCHANGED <<pc, call>>
           ELSE /\ fw' = IdleLocals(fw.runs)
                /\ call' = [op |-> "forward", args |-> call.args,
                            outcome |-> r.outcome, step |-> fw.i]
                /\ pc' = "idle"
    /\ UNCHANGED <<dec, ret, up, pk, mom, smp>>

\* one iteration of the loop: lines 192-282
ForwardStep ==
    /\ pc = "loop"
    /\ fw.i < NumIterations(dec)
    /\ DoUnpool(dec.unpool_indices[fw.i + 1])
          => 4 * NumFaces(fw.pred_meshes[fw.i + 1], 1) <= MaxFaces
    /\ LET r == DecoderStep(dec, SkipMaps(fw.batch_size), fw.batch_size,
                            fw.pred_meshes[fw.i + 1], fw.i)
       IN  IF r.outcome = "ok"
           THEN /\ fw' = [fw EXCEPT !.i = fw.i + 1,
                                    !.pred_meshes = Append(fw.pred_meshes, r.new_meshes),
                                    !.pred_deltaV = Append(fw.pred_deltaV, Some(r.deltaV_padded))]
                /\ UNCHANGED <<pc, call>>
           ELSE /\ fw' = IdleLocals(fw.runs)
                /\ call' = [op |-> "forward", args |-> call.args,
                            outcome |-> r.outcome, step |-> fw.i]
                /\ pc' = "idle"
    /\ UNCHANGED <<dec, ret, up, pk, mom, smp>>

\* line 284: return pred_meshes, pred_deltaV
ForwardReturn ==
    /\ pc = "loop"
    /\ fw.i = NumIterations(dec)
    /\ ret' = [returned |-> TRUE, pred_meshes |-> fw.pred_meshes,
               pred_deltaV |-> fw.pred_deltaV]
    /\ call' = [call EXCEPT !.outcome = "returned"]
    /\ fw' = IdleLocals(fw.runs)
    /\ pc' = "idle"
    /\ UNCHANGED <<dec, up, pk, mom, smp>>

(***************************************************************************)
(* The unpooling block of forward() on its own, applied to arbitrary       *)
(* triangle lists: open, closed, and with edges shared by several faces.   *)
(***************************************************************************)
\* largest number of faces of a drawn triangle list
MaxUnpoolFaces == 2

\* the vertices the drawn triangles are taken over
PoolVertices == 0..4

\* position and latent rows of a mesh with n_verts vertices
PoolPositions(n_verts) ==
    [v \in 1..n_verts |-> <<Unit * v, Unit * (v * v), Unit * ((3 * v) % 4)>>]

PoolLatent(n_verts) ==
    [v \in 1..n_verts |-> <<Unit * (v % 3)>>]

\* triangles over the pool, each written from its smallest corner
PoolTriangles ==
    {t \in PoolVertices \X PoolVertices \X PoolVertices :
        t[1] < t[2] /\ t[1] < t[3] /\ t[2] # t[3]}

\* three triangles around one common edge
FanFaces == << <<0, 1, 2>>, <<0, 1, 3>>, <<0, 1, 4>> >>

\* the meshes handed to the unpooling block
PoolMeshes ==
    {[n_verts |-> 4, faces |-> TetraFaces], [n_verts |-> 5, faces |-> FanFaces]}
        \cup UNION {[n_verts : {5}, faces : [1..F -> PoolTriangles]] : F \in 1..MaxUnpoolFaces}

\* lines 209-221 applied to a batch of one mesh
UnpoolRecord(vertices, latent, faces) ==
    LET r == UnpoolBlock(<<vertices>>, <<latent>>, <<faces>>)
    IN  [op |-> "unpool", vertices_in |-> vertices, latent_in |-> latent,
         faces_in |-> faces, vertices |-> r.vertices_padded[1],
         latent |-> r.latent_features_padded[1], faces |-> r.faces_padded[1]]

\* the block applied to a drawn mesh
UnpoolCall(mesh) ==
    /\ up.op = "none"
    /\ up' = UnpoolRecord(PoolPositions(mesh.n_verts), PoolLatent(mesh.n_verts), mesh.faces)
    /\ UNCHANGED <<dec, call, pc, fw, ret, pk, mom, smp>>

\* the block applied to its own result, as in two consecutive flagged steps
UnpoolAgain ==
    /\ up.op = "unpool"
    /\ 4 * Len(up.faces) <= MaxFaces
    /\ up' = UnpoolRecord(up.vertices, up.latent, up.faces)
    /\ UNCHANGED <<dec, call, pc, fw, ret, pk, mom, smp>>

NextUnpool ==
    \/ \E mesh \in PoolMeshes : UnpoolCall(mesh)
    \/ UnpoolAgain

SpecUnpool == Init /\ [][NextUnpool]_vars

(***************************************************************************)
(* Packed and padded tensors (vox2organ/utils/utils_padded_packed.py).     *)
(* A tensor is its shape and its elements in row-major order; a packed     *)
(* tensor has the shape (R, C), a padded tensor the shape (N, M, L, C)     *)
(* after the permute of unpack.                                            *)
(***************************************************************************)
\* largest number of structures M
MaxStructs == 2

\* largest per-structure length
MaxLen == 3

RECURSIVE BitLength(_)
\* number of binary digits of a natural number
BitLength(x) == IF x = 0 THEN 0 ELSE 1 + BitLength(x \div 2)

\* tensor.float() on an integer: the nearest value with a 24-bit
\* significand, ties to the even significand
Float32(x) ==
    LET a == IF x < 0 THEN 0 - x ELSE x
        e == BitLength(a) - 24
        step == IF e > 0 THEN 2 ^ e ELSE 1
        q == a \div step
        rem == a % step
        rounded == IF 2 * rem < step THEN q * step
                   ELSE IF 2 * rem > step THEN (q + 1) * step
                   ELSE IF q % 2 = 0 THEN q * step ELSE (q + 1) * step
    IN  IF x < 0 THEN 0 - rounded ELSE rounded

RECURSIVE Prod(_)
\* number of elements of a tensor of the given shape
Prod(shape) == IF shape = <<>> THEN 1 ELSE Head(shape) * Prod(Tail(shape))

\* tensor.ndim
NDim(t) == Len(t.shape)

\* a tensor without elements
NoTensor == [shape |-> <<0>>, data |-> <<>>]

\* t[a:b, :] on a tensor of two or more dimensions, a and b 0-based, b
\* exclusive; a bound below zero counts from the tensor's end, and the
\* slice is cut at the tensor's ends
RowSlice(t, a, b) ==
    LET lo == SliceBound(a, t.shape[1])
        hi == SliceBound(b, t.shape[1])
        rows == IF hi > lo THEN hi - lo ELSE 0
        width == Prod(Tail(t.shape))
    IN  [shape |-> <<rows>> \o Tail(t.shape),
         data |-> [k \in 1..(rows * width) |-> t.data[lo * width + k]]]

\* whether cut.view(batchsize, length, -1) is accepted: one size only may
\* be left open, no other size may be negative, and the open size must be
\* determined by the number of elements
ViewAccepted(cut, batchsize, length) ==
    /\ batchsize > 0
    /\ length > 0
    /\ Prod(cut.shape) % (batchsize * length) = 0

\* cut.view(batchsize, length, -1)
View3(cut, batchsize, length) ==
    [shape |-> <<batchsize, length, Prod(cut.shape) \div (batchsize * length)>>,
     data |-> cut.data]

RECURSIVE CutList(_, _, _, _)
\* lines 47-53: the slices of the packed tensor, one per structure; an
\* entry is not ok where view refuses the shape
CutList(packed, lengths, batchsize, start) ==
    IF lengths = <<>> THEN <<>>
    ELSE LET length == Head(lengths)
             cut == RowSlice(packed, start, start + batchsize * length)
         IN  << IF ViewAccepted(cut, batchsize, length)
                THEN [ok |-> TRUE, t |-> View3(cut, batchsize, length)]
                ELSE [ok |-> FALSE] >>
             \o CutList(packed, Tail(lengths), batchsize, start + batchsize * length)

\* the largest element of a non-empty set of numbers
MaxOf(S) == CHOOSE x \in S : \A y \in S : y <= x

\* line 21 for one tensor t of shape (N, L, C): F.pad(t, (0, 0, 0, k)),
\* k rows of zeros after the L rows of every batch member
PadRows(t, k) ==
    LET L == t.shape[2]
        C == t.shape[3]
    IN  [shape |-> <<t.shape[1], L + k, C>>,
         data |-> [e \in 1..(t.shape[1] * (L + k) * C) |->
                      LET n == (e - 1) \div ((L + k) * C)
                          l == ((e - 1) \div C) % (L + k)
                          c == (e - 1) % C
                      IN  IF l < L THEN t.data[(n * L + l) * C + c + 1] ELSE 0]]

\* zero_pad_max_length(data, dimension=1) on a list of (N, L_i, C_i)
\* tensors: line 19 takes max() of the lengths, a ValueError for an empty
\* list; line 20 reads data[dimension], the second tensor of the list; line
\* 21 pads every tensor to the largest length with rows of zeros of its
\* own width; the mask returned with them is the lengths
zero_pad_max_length(data) ==
    IF Len(data) = 0 THEN [outcome |-> "ValueError"]
    ELSE IF Len(data) < 2 THEN [outcome |-> "IndexError"]
    ELSE LET lengths == [i \in 1..Len(data) |-> data[i].shape[2]]
             max_lenght == MaxOf({lengths[i] : i \in 1..Len(data)})
         IN  [outcome |-> "ok",
              padded |-> [i \in 1..Len(data) |-> PadRows(data[i], max_lenght - lengths[i])],
              mask |-> lengths]

\* line 55 on M >= 2 padded tensors of one shape (N, L, C):
\* torch.stack(padded).float().squeeze(0).permute(1, 0, 2, 3), the tensor
\* of shape (N, M, L, C)
StackPermuted(padded) ==
    LET M == Len(padded)
        N == padded[1].shape[1]
        L == padded[1].shape[2]
        C == padded[1].shape[3]
    IN  [shape |-> <<N, M, L, C>>,
         data |-> [e \in 1..(N * M * L * C) |->
                      LET n == (e - 1) \div (M * L * C)
                          m == ((e - 1) \div (L * C)) % M
                          r == (e - 1) % (L * C)
                      IN  Float32(padded[m + 1].data[n * L * C + r + 1])]]

\* unpack(packed, lengths, batchsize): line 50 indexes two dimensions of
\* packed; torch.stack refuses tensors of different shapes
unpack(packed, lengths, batchsize) ==
    IF lengths # <<>> /\ NDim(packed) < 2 THEN [outcome |-> "IndexError"]
    ELSE LET cuts == CutList(packed, lengths, batchsize, 0)
         IN  IF \E i \in 1..Len(cuts) : ~cuts[i].ok
             THEN [outcome |-> "RuntimeError"]
             ELSE LET z == zero_pad_max_length([i \in 1..Len(cuts) |-> cuts[i].t])
                  IN  IF z.outcome # "ok" THEN [outcome |-> z.outcome]
                      ELSE IF \E i \in 1..Len(z.padded) : z.padded[i].shape # z.padded[1].shape
                      THEN [outcome |-> "RuntimeError"]
                      ELSE [outcome |-> "ok", padded |-> StackPermuted(z.padded)]

RECURSIVE PackFrom(_, _, _)
\* lines 38-41 for the structures i, i+1, ... of a padded tensor of shape
\* (N, M, L, C): the rows of structure i of all batch members, cut by the
\* slice [:lengths[i]], then those of the next
PackFrom(padded, lengths, i) ==
    IF i > padded.shape[2] THEN <<>>
    ELSE LET M == padded.shape[2]
             L == padded.shape[3]
             C == padded.shape[4]
             keep == SliceBound(lengths[i], L)
         IN  [e \in 1..(padded.shape[1] * keep * C) |->
                 LET n == (e - 1) \div (keep * C)
                     r == (e - 1) % (keep * C)
                 IN  padded.data[((n * M + (i - 1)) * L) * C + r + 1]]
             \o PackFrom(padded, lengths, i + 1)

\* pack(padded, lengths) on a padded tensor of shape (N, M, L, C): line 39
\* reads lengths[i] for every structure, line 42 is torch.cat, which
\* refuses the empty list a tensor without structures gives
pack(padded, lengths) ==
    IF padded.shape[2] = 0 THEN [outcome |-> "RuntimeError"]
    ELSE IF Len(lengths) < padded.shape[2] THEN [outcome |-> "IndexError"]
    ELSE [outcome |-> "ok",
          packed |-> [shape |-> << SumSeq([i \in 1..padded.shape[2] |->
                                      padded.shape[1] * SliceBound(lengths[i], padded.shape[3])]),
                                  padded.shape[4] >>,
                      data |-> PackFrom(padded, lengths, 1)]]

\* a packed tensor of index rows for the given lengths and batch size, its
\* entries counted up from base
PackedOf(lengths, batchsize, base) ==
    [shape |-> <<batchsize * SumSeq(lengths), Dim>>,
     data |-> [k \in 1..(batchsize * SumSeq(lengths) * Dim) |-> base + k]]

\* where the entries start: small indices, and indices around 2^24
PackedBases == {0, 2 ^ 24 - 4}

\* padded = unpack(packed, lengths, batchsize)
Unpack(packed, lengths, batchsize) ==
    /\ pk.op = "none"
    /\ LET r == unpack(packed, lengths, batchsize)
       IN  pk' = [op |-> "unpack", packed |-> packed, lengths |-> lengths,
                  batchsize |-> batchsize, outcome |-> r.outcome,
                  padded |-> IF r.outcome = "ok" THEN r.padded ELSE NoTensor]
    /\ UNCHANGED <<dec, call, pc, fw, ret, up, mom, smp>>

\* pack(padded, lengths) on the tensor unpack returned
Pack ==
    /\ pk.op = "unpack"
    /\ pk.outcome = "ok"
    /\ LET r == pack(pk.padded, pk.lengths)
       IN  pk' = [pk EXCEPT !.op = "pack", !.padded = NoTensor, !.outcome = r.outcome]
                 @@ [result |-> IF r.outcome = "ok" THEN r.packed ELSE NoTensor]
    /\ UNCHANGED <<dec, call, pc, fw, ret, up, mom, smp>>

NextPack ==
    \/ \E batchsize \in 1..MaxBatch : \E M \in 1..MaxStructs :
         \E lengths \in [1..M -> 0..MaxLen] : \E base \in PackedBases :
             Unpack(PackedOf(lengths, batchsize, base), lengths, batchsize)
    \/ Pack

SpecPack == Init /\ [][NextPack]_vars

(***************************************************************************)
(* MeshesOfMeshes (src/utils/mesh.py).  A tensor is its shape and its      *)
(* elements in row-major order.                                            *)
(***************************************************************************)
\* largest number of method calls on one object after its construction
MaxMeshCalls == 2

\* tensor.shape[:-1]
ShapeButLast(t) == SubSeq(t.shape, 1, Len(t.shape) - 1)

\* update_features that stores the features before it compares the shapes
update_features_AssignFirst(obj, features) ==
    IF ShapeButLast(features) # ShapeButLast(obj._verts_padded)
    THEN [outcome |-> "ValueError: Invalid feature shape.",
          obj |-> [obj EXCEPT !._features_padded = Some(features)]]
    ELSE [outcome |-> "ok", obj |-> [obj EXCEPT !._features_padded = Some(features)]]

\* MeshesOfMeshes.update_features(features) on object obj
update_features(obj, features) ==
    IF ShapeButLast(features) # ShapeButLast(obj._verts_padded)
    THEN [outcome |-> "ValueError: Invalid feature shape.", obj |-> obj]
    ELSE [outcome |-> "ok", obj |-> [obj EXCEPT !._features_padded = Some(features)]]

\* MeshesOfMeshes.__init__(verts, faces, features): features is None or
\* Some(tensor); a failed construction leaves no object
MeshesOfMeshesInit(verts, faces, features) ==
    IF NDim(verts) # 4
    THEN [outcome |-> "ValueError: Vertices are required to be a 4D tensor.", obj |-> NoObject]
    ELSE IF NDim(faces) # 4
    THEN [outcome |-> "ValueError: Faces are required to be a 4D tensor.", obj |-> NoObject]
    ELSE IF ~features.isNone /\ NDim(features.val) # 4
    THEN [outcome |-> "ValueError: Features are required to be a 4D tensor.", obj |-> NoObject]
    ELSE LET self == [exists |-> TRUE,
                      contains_features |-> ~features.isNone,
                      _verts_padded |-> verts,
                      _faces_padded |-> faces,
                      _edges_packed |-> None,
                      ndims |-> verts.shape[Len(verts.shape)],
                      _features_padded |-> None]
         IN  IF features.isNone THEN [outcome |-> "ok", obj |-> self]
             ELSE IF update_features(self, features.val).outcome = "ok"
             THEN update_features(self, features.val)
             ELSE [outcome |-> update_features(self, features.val).outcome,
                   obj |-> NoObject]

\* move_verts without the comparison of shapes: the offset is added to the
\* vertices element by element, repeated as often as needed
move_verts_Unchecked(obj, offset) ==
    [outcome |-> "ok",
     obj |-> [obj EXCEPT !._verts_padded =
                 [shape |-> obj._verts_padded.shape,
                  data |-> [k \in 1..Len(obj._verts_padded.data) |->
                               obj._verts_padded.data[k]
                                   + offset.data[((k - 1) % Len(offset.data)) + 1]]]],
     offset |-> offset]

\* MeshesOfMeshes.move_verts(offset) on object obj: the outcome, the object
\* and the offset tensor after the call (the sum of line 222 is a new
\* tensor, neither operand is written)
move_verts(obj, offset) ==
    IF offset.shape # obj._verts_padded.shape
    THEN [outcome |-> "ValueError: Invalid offset.", obj |-> obj, offset |-> offset]
    ELSE [outcome |-> "ok",
          obj |-> [obj EXCEPT !._verts_padded =
                      [shape |-> obj._verts_padded.shape,
                       data |-> [k \in 1..Len(offset.data) |->
                                    obj._verts_padded.data[k] + offset.data[k]]]],
          offset |-> offset]

\* tensor.view(-1, width): the elements as rows of the given width
ViewRows(t, width) ==
    [k \in 1..(Len(t.data) \div width) |->
        [c \in 1..width |-> t.data[(k - 1) * width + c]]]

\* whether tensor.view(-1, width) is accepted
ViewRowsAccepted(t, width) ==
    width > 0 /\ Len(t.data) % width = 0

\* lines 209-211: add_index, F entries i * V for every i in range(N * M),
\* computed in float32 (i and V are both rounded to float32 before the
\* product is) and converted with .long(); torch.cat refuses the empty
\* list that range(N * M) gives for N * M = 0
AddIndex(N, M, V, F) ==
    IF N * M = 0 THEN [outcome |-> "RuntimeError"]
    ELSE [outcome |-> "ok",
          value |-> [k \in 1..(N * M * F) |->
                        Float32(Float32((k - 1) \div F) * Float32(V))]]

\* rows (R, W) + add (K, 1) under torch's broadcasting: the sizes R and K
\* must be equal, or one of them 1
BroadcastAdd(rows, add) ==
    LET R == Len(rows)
        K == Len(add)
    IN  IF R = K
        THEN [outcome |-> "ok",
              value |-> [k \in 1..R |-> [c \in 1..Len(rows[k]) |-> rows[k][c] + add[k]]]]
        ELSE IF K = 1
        THEN [outcome |-> "ok",
              value |-> [k \in 1..R |-> [c \in 1..Len(rows[k]) |-> rows[k][c] + add[1]]]]
        ELSE IF R = 1
        THEN [outcome |-> "ok",
              value |-> [k \in 1..K |-> [c \in 1..Len(rows[1]) |-> rows[1][c] + add[k]]]]
        ELSE [outcome |-> "RuntimeError"]

\* MeshesOfMeshes.faces_packed(): add_index is built (lines 209-211)
\* before the faces are viewed as rows and the two are added (line 212)
faces_packed(obj) ==
    LET N == obj._verts_padded.shape[1]
        M == obj._verts_padded.shape[2]
        V == obj._verts_padded.shape[3]
        F == obj._faces_padded.shape[3]
        add_index == AddIndex(N, M, V, F)
    IN  IF add_index.outcome # "ok"
        THEN [outcome |-> add_index.outcome]
        ELSE IF ~ViewRowsAccepted(obj._faces_padded, obj.ndims)
        THEN [outcome |-> "RuntimeError"]
        ELSE BroadcastAdd(ViewRows(obj._faces_padded, obj.ndims), add_index.value)

\* MeshesOfMeshes.verts_packed()
verts_packed(obj) ==
    IF ~ViewRowsAccepted(obj._verts_padded, obj.ndims)
    THEN [outcome |-> "RuntimeError"]
    ELSE [outcome |-> "ok", value |-> ViewRows(obj._verts_padded, obj.ndims)]

\* lines 191-197: the edges of the packed faces, all (v1, v2), then all
\* (v2, v0), then all (v0, v1)
EdgesOfFaces(faces) ==
    [k \in 1..Len(faces) |-> <<faces[k][2], faces[k][3]>>]
        \o [k \in 1..Len(faces) |-> <<faces[k][3], faces[k][1]>>]
        \o [k \in 1..Len(faces) |-> <<faces[k][1], faces[k][2]>>]

\* MeshesOfMeshes.edges_packed(): the value returned and the object, whose
\* cache is filled by the first call
edges_packed(obj) ==
    IF ~obj._edges_packed.isNone
    THEN [outcome |-> "ok", value |-> obj._edges_packed.val, obj |-> obj]
    ELSE LET faces == faces_packed(obj)
         IN  IF faces.outcome # "ok"
             THEN [outcome |-> faces.outcome, obj |-> obj]
             ELSE LET edges == IF obj.ndims = 3 THEN EdgesOfFaces(faces.value)
                               ELSE faces.value
                  IN  [outcome |-> "ok", value |-> edges,
                       obj |-> [obj EXCEPT !._edges_packed = Some(edges)]]

\* MeshesOfMeshes.features_packed(): view(-1, C) refuses C = 0
features_packed(obj) ==
    IF obj.contains_features
    THEN IF ~ViewRowsAccepted(obj._features_padded.val, obj._features_padded.val.shape[4])
         THEN [outcome |-> "RuntimeError"]
         ELSE [outcome |-> "ok",
               value |-> Some(ViewRows(obj._features_padded.val,
                                       obj._features_padded.val.shape[4]))]
    ELSE [outcome |-> "ok", value |-> None]

\* tensors of a given shape: positions, local face indices, features, offsets
VertsOf(shape) == [shape |-> shape, data |-> [k \in 1..Prod(shape) |-> Unit * k]]

FacesOf(shape) == [shape |-> shape, data |-> [k \in 1..Prod(shape) |-> (k - 1) % 3]]

FeaturesOf(shape) == [shape |-> shape, data |-> [k \in 1..Prod(shape) |-> Unit * (k % FeatMod)]]

OffsetOf(shape) == [shape |-> shape, data |-> [k \in 1..Prod(shape) |-> Unit]]

\* (N, M) pairs, and the shapes drawn for the constructor's arguments; one
\* shape of each kind has three dimensions only
BatchDims == (1..MaxBatch) \X (1..MaxStructs)

VertShapes == {<<d[1], d[2], 3, Dim>> : d \in BatchDims} \cup {<<1, 3, Dim>>}

FaceShapes == {<<d[1], d[2], 1, 3>> : d \in BatchDims} \cup {<<1, 1, 3>>}

FeatureShapes ==
    {<<d[1], d[2], v, 1>> : d \in BatchDims, v \in {3, 4}} \cup {<<1, 3, 1>>}

\* shapes derived from a vertex shape: the same, one more vertex, no
\* structure dimension
ShapesAround(shape, last) ==
    {<<shape[1], shape[2], shape[3], last>>, <<shape[1], shape[2], shape[3] + 1, last>>,
     <<shape[1], shape[3], last>>}

\* MeshesOfMeshes(verts, faces, features)
MeshConstruct(verts, faces, features) ==
    /\ mom.op = "none"
    /\ LET r == MeshesOfMeshesInit(verts, faces, features)
       IN  mom' = [op |-> "__init__", outcome |-> r.outcome, obj |-> r.obj, calls |-> 0,
                   args |-> [verts |-> verts, faces |-> faces, features |-> features]]
    /\ UNCHANGED <<dec, call, pc, fw, ret, up, pk, smp>>

\* mesh.update_features(features)
MeshUpdateFeatures(features) ==
    /\ mom.obj.exists
    /\ mom.calls < MaxMeshCalls
    /\ LET r == update_features(mom.obj, features)
       IN  mom' = [op |-> "update_features", outcome |-> r.outcome, obj |-> r.obj,
                   calls |-> mom.calls + 1, args |-> features, before |-> mom.obj]
    /\ UNCHANGED <<dec, call, pc, fw, ret, up, pk, smp>>

\* mesh.move_verts(offset)
MeshMoveVerts(offset) ==
    /\ mom.obj.exists
    /\ mom.calls < MaxMeshCalls
    /\ LET r == move_verts(mom.obj, offset)
       IN  mom' = [op |-> "move_verts", outcome |-> r.outcome, obj |-> r.obj,
                   calls |-> mom.calls + 1, args |-> offset, before |-> mom.obj,
                   offset |-> r.offset]
    /\ UNCHANGED <<dec, call, pc, fw, ret, up, pk, smp>>

NextMesh ==
    \/ \E vs \in VertShapes : \E fs \in FaceShapes :
         \E features \in {None} \cup {Some(FeaturesOf(shape)) : shape \in FeatureShapes} :
             MeshConstruct(VertsOf(vs), FacesOf(fs), features)
    \/ /\ mom.obj.exists
       /\ \E shape \in ShapesAround(mom.obj._verts_padded.shape, 2) :
             MeshUpdateFeatures(FeaturesOf(shape))
    \/ /\ mom.obj.exists
       /\ \E shape \in ShapesAround(mom.obj._verts_padded.shape, Dim) :
             MeshMoveVerts(OffsetOf(shape))

SpecMesh == Init /\ [][NextMesh]_vars

\* the contents of drawn face tensors: real faces only, the last face slot
\* of every unit padded with -1, or one corner equal to V
FaceKinds == {"real", "padded", "stray"}

\* a face tensor of the given shape over V vertices per unit
FacesOfKind(shape, V, kind) ==
    LET F == shape[3]
        W == shape[4]
        real(k) == (((k - 1) % W) + (((k - 1) \div W) % F) + ((k - 1) \div (F * W))) % V
    IN  [shape |-> shape,
         data |-> [k \in 1..Prod(shape) |->
                      IF kind = "padded" /\ ((k - 1) \div W) % F = F - 1 THEN 0 - 1
                      ELSE IF kind = "stray" /\ k = Prod(shape) THEN V
                      ELSE real(k)]]

\* numbers of face slots per unit of the drawn face tensors
FaceCounts == {1, 2}

\* mesh.faces_packed()
MeshFacesPacked ==
    /\ mom.obj.exists
    /\ mom.calls < MaxMeshCalls
    /\ LET r == faces_packed(mom.obj)
       IN  mom' = [op |-> "faces_packed", outcome |-> r.outcome, obj |-> mom.obj,
                   calls |-> mom.calls + 1, before |-> mom.obj,
                   result |-> IF r.outcome = "ok" THEN r.value ELSE <<>>]
    /\ UNCHANGED <<dec, call, pc, fw, ret, up, pk, smp>>

\* mesh.verts_packed()
MeshVertsPacked ==
    /\ mom.obj.exists
    /\ mom.calls < MaxMeshCalls
    /\ LET r == verts_packed(mom.obj)
       IN  mom' = [op |-> "verts_packed", outcome |-> r.outcome, obj |-> mom.obj,
                   calls |-> mom.calls + 1, before |-> mom.obj,
                   result |-> IF r.outcome = "ok" THEN r.value ELSE <<>>]
    /\ UNCHANGED <<dec, call, pc, fw, ret, up, pk, smp>>

\* mesh.edges_packed()
MeshEdgesPacked ==
    /\ mom.obj.exists
    /\ mom.calls < MaxMeshCalls
    /\ LET r == edges_packed(mom.obj)
       IN  mom' = [op |-> "edges_packed", outcome |-> r.outcome, obj |-> r.obj,
                   calls |-> mom.calls + 1, before |-> mom.obj,
                   result |-> IF r.outcome = "ok" THEN r.value ELSE <<>>]
    /\ UNCHANGED <<dec, call, pc, fw, ret, up, pk, smp>>

\* mesh.features_packed()
MeshFeaturesPacked ==
    /\ mom.obj.exists
    /\ mom.calls < MaxMeshCalls
    /\ LET r == features_packed(mom.obj)
       IN  mom' = [op |-> "features_packed", outcome |-> r.outcome, obj |-> mom.obj,
                   calls |-> mom.calls + 1, before |-> mom.obj,
                   result |-> IF r.outcome = "ok" THEN r.value ELSE None]
    /\ UNCHANGED <<dec, call, pc, fw, ret, up, pk, smp>>

\* (N, M) of a batch without members
EmptyDims == {<<0, 1>>}

\* the (N, M) pairs drawn for the faces of an object whose vertices have
\* the pair vd: every pair for a batch with members, the same pair for a
\* batch without
FaceDimsFor(vd) == IF vd \in EmptyDims THEN {vd} ELSE BatchDims

\* objects of 3D and of 2D meshes with real, padded and stray faces, of
\* batches with and without members, and the methods that read and change
\* them
NextMeshQuery ==
    \/ \E vd \in BatchDims \cup EmptyDims : \E fd \in FaceDimsFor(vd) : \E F \in FaceCounts :
         \E W \in {2, Dim} : \E kind \in FaceKinds : \E with \in BOOLEAN :
             MeshConstruct(VertsOf(<<vd[1], vd[2], 3, W>>),
                           FacesOfKind(<<fd[1], fd[2], F, W>>, 3, kind),
                           IF with THEN Some(FeaturesOf(<<vd[1], vd[2], 3, 2>>)) ELSE None)
    \/ MeshFacesPacked
    \/ MeshVertsPacked
    \/ MeshEdgesPacked
    \/ MeshFeaturesPacked
    \/ /\ mom.obj.exists
       /\ \E shape \in ShapesAround(mom.obj._verts_padded.shape, 2) :
             MeshUpdateFeatures(FeaturesOf(shape))
    \/ /\ mom.obj.exists
       /\ \E shape \in ShapesAround(mom.obj._verts_padded.shape, mom.obj.ndims) :
             MeshMoveVerts(OffsetOf(shape))

SpecMeshQuery == Init /\ [][NextMeshQuery]_vars

(***************************************************************************)
(* Trilinear sampling of one feature map at one position (the sampling of  *)
(* utils.utils_voxel2meshplusplus.feature_aggregation).  A map has R       *)
(* voxels along every axis; the normalised coordinates -1 and 1 are the    *)
(* centres of the first and of the last voxel of an axis.                  *)
(***************************************************************************)
\* voxels per axis of the sampled feature maps
Resolutions == {2, 3, 5}

\* the feature vector stored at voxel idx = (i, j, k) of the map with R
\* voxels per axis
VoxelFeature(R, idx) ==
    [c \in 1..2 |-> Unit * ((idx[1] + 2 * idx[2] + 3 * idx[3] + c * R) % FeatMod)]

\* a grid coordinate that takes -1 and 1 as the outer faces of the first
\* and of the last voxel
GridCoordinate_VoxelFaces(x, R) ==
    LET g == (x + Unit) * R - Unit
        top == 2 * Unit * (R - 1)
    IN  IF g < 0 THEN 0 ELSE IF g > top THEN top ELSE g

\* the grid coordinate of the normalised coordinate x along one axis, in
\* units of 1/(2 * Unit) voxels: [-1, 1] mapped linearly onto [0, R - 1],
\* positions outside clamped to the boundary
GridCoordinate(x, R) ==
    LET g == (x + Unit) * (R - 1)
        top == 2 * Unit * (R - 1)
    IN  IF g < 0 THEN 0 ELSE IF g > top THEN top ELSE g

\* the two voxels next to x along one axis and their weights, in units of
\* 1/(2 * Unit)
AxisCorners(x, R) ==
    LET lo == GridCoordinate(x, R) \div (2 * Unit)
        fr == GridCoordinate(x, R) % (2 * Unit)
    IN  << [index |-> lo, weight |-> 2 * Unit - fr],
           [index |-> IF lo + 1 <= R - 1 THEN lo + 1 ELSE R - 1, weight |-> fr] >>

\* the weighted sum of channel c over the eight voxels around the position
CornerSum(R, cx, cy, cz, c) ==
    SumOver([q \in {1, 2} \X {1, 2} \X {1, 2} |->
                cx[q[1]].weight * cy[q[2]].weight * cz[q[3]].weight
                    * VoxelFeature(R, <<cx[q[1]].index, cy[q[2]].index, cz[q[3]].index>>)[c]],
            {1, 2} \X {1, 2} \X {1, 2})

\* the feature vector sampled at pos = (x, y, z): the eight neighbouring
\* voxels blended by distance
Trilinear(R, pos) ==
    [c \in 1..2 |->
        CornerSum(R, AxisCorners(pos[1], R), AxisCorners(pos[2], R), AxisCorners(pos[3], R), c)
            \div ((2 * Unit) ^ 3)]

\* coordinates along one axis: quarters from -1.25 to 1.25
AxisCoordinates == {k * (Unit \div 4) : k \in (0 - 5)..5}

\* one map sampled at one position
Sample(R, pos) ==
    /\ smp.op = "none"
    /\ smp' = [op |-> "sample", resolution |-> R, position |-> pos,
               value |-> Trilinear(R, pos)]
    /\ UNCHANGED <<dec, call, pc, fw, ret, up, pk, mom>>

NextSample ==
    \E R \in Resolutions : \E pos \in AxisCoordinates \X AxisCoordinates \X AxisCoordinates :
        Sample(R, pos)

SpecSample == Init /\ [][NextSample]_vars

(***************************************************************************)
(* The configurations and inputs the environment draws.                    *)
(***************************************************************************)
\* latent channel widths
Widths == {1, 2}

\* per-step aggregation indices
AggChoices == {<<0, 1>>, <<1, 2>>}

\* constructor arguments with K steps declared by every list; the layers'
\* parameters are drawn with them: at most one step's feature-to-vertex
\* convolution has all weights zero
RunArgsOf(K) ==
    [mesh_template : TemplateNames,
     unpool_indices : [1..K -> {0, 1}],
     use_adoptive_unpool : BOOLEAN,
     graph_channels : {[j \in 1..(K + 1) |-> 1 + (j % 2)]},
     skip_channels : {SkipChannels},
     weighted_edges : {FALSE},
     propagate_coords : BOOLEAN,
     aggregate_indices : {[j \in 1..K |-> c] : c \in AggChoices},
     f2v_zero : {[j \in 1..K |-> j = z] : z \in 0..K}]

RunArgs == UNION {RunArgsOf(K) : K \in 0..MaxSteps}

\* batch sizes forward() is called with: no sample, one sample, or a full
\* batch
BatchSizes == {0, 1, MaxBatch}

\* values assigned to unpool_indices after construction
SetterIndices == {[j \in 1..K |-> 1] : K \in 0..MaxSteps}

\* aggregation indices the constructor is handed: counted from the start of
\* the skip list, or with a first index counted from its end
CtorAggChoices == {<<0, 1>>, <<0 - 1, 2>>}

\* constructor arguments whose three lists have independent lengths
CtorArgs ==
    UNION { UNION { UNION {
        [mesh_template : {"tetra"},
         unpool_indices : [1..U -> {0, 1}],
         use_adoptive_unpool : BOOLEAN,
         graph_channels : [1..G -> Widths],
         skip_channels : {SkipChannels},
         weighted_edges : BOOLEAN,
         propagate_coords : BOOLEAN,
         aggregate_indices : {[j \in 1..A |-> c] : c \in CtorAggChoices},
         f2v_zero : {[j \in 1..(IF G = 0 THEN 0 ELSE G - 1) |-> FALSE]}]
        : A \in 0..MaxSteps } : U \in 0..MaxSteps } : G \in 0..(MaxSteps + 1) }

Next ==
    \/ \E a \in RunArgs : Construct(a)
    \/ \E indices \in SetterIndices : SetUnpoolIndices(indices)
    \/ \E value \in BOOLEAN : SetUseAdoptiveUnpool(value)
    \/ \E batch_size \in BatchSizes : ForwardBegin(batch_size, 1)
    \/ ForwardStep
    \/ ForwardReturn

Spec == Init /\ [][Next]_vars

\* largest number of forward() calls one decoder object receives
MaxRuns == 2

\* constructor arguments of decoders that are run repeatedly: every
\* feature-to-vertex convolution moves the vertices
RepeatArgs ==
    {a \in RunArgs : ~a.use_adoptive_unpool /\ \A j \in DOMAIN a.f2v_zero : ~a.f2v_zero[j]}

\* one decoder object called up to MaxRuns times, with any of the batch sizes
NextRepeat ==
    \/ \E a \in RepeatArgs : Construct(a)
    \/ \E indices \in SetterIndices : SetUnpoolIndices(indices)
    \/ \E batch_size \in BatchSizes : ForwardBegin(batch_size, MaxRuns)
    \/ ForwardStep
    \/ ForwardReturn

SpecRepeat == Init /\ [][NextRepeat]_vars

\* aggregation index sets of one, two and three feature maps, contiguous
\* and not
AggSets == {<<0>>, <<0, 1>>, <<1, 2>>, <<0, 2>>, <<0, 1, 2>>}

\* constructor arguments of decoders without unpooling whose steps draw
\* their aggregation index sets independently
AggArgsOf(K) ==
    [mesh_template : {"tetra"},
     unpool_indices : {[j \in 1..K |-> 0]},
     use_adoptive_unpool : {FALSE},
     graph_channels : {[j \in 1..(K + 1) |-> 1 + (j % 2)]},
     skip_channels : {SkipChannels},
     weighted_edges : {FALSE},
     propagate_coords : BOOLEAN,
     aggregate_indices : [1..K -> AggSets],
     f2v_zero : {[j \in 1..K |-> FALSE]}]

AggArgs == UNION {AggArgsOf(K) : K \in 1..MaxSteps}

\* construction with any of the index sets, and one run of the decoder
NextAgg ==
    \/ \E a \in AggArgs : Construct(a)
    \/ \E batch_size \in BatchSizes : ForwardBegin(batch_size, 1)
    \/ ForwardStep
    \/ ForwardReturn

SpecAgg == Init /\ [][NextAgg]_vars

\* the two users of edge lists: a decoder run, or a MeshesOfMeshes object
\* whose edges are taken and whose vertices and features are then changed
NextEdges ==
    \/ /\ mom.op = "none"
       /\ \E a \in RepeatArgs : Construct(a)
    \/ \E batch_size \in BatchSizes : ForwardBegin(batch_size, 1)
    \/ ForwardStep
    \/ ForwardReturn
    \/ /\ pc = "new"
       /\ \E vd \in BatchDims : \E F \in FaceCounts : \E W \in {2, Dim} :
             MeshConstruct(VertsOf(<<vd[1], vd[2], 3, W>>),
                           FacesOfKind(<<vd[1], vd[2], F, W>>, 3, "real"), None)
    \/ MeshEdgesPacked
    \/ /\ mom.obj.exists
       /\ \E shape \in ShapesAround(mom.obj._verts_padded.shape, 2) :
             MeshUpdateFeatures(FeaturesOf(shape))
    \/ /\ mom.obj.exists
       /\ \E shape \in ShapesAround(mom.obj._verts_padded.shape, mom.obj.ndims) :
             MeshMoveVerts(OffsetOf(shape))

SpecEdges == Init /\ [][NextEdges]_vars

\* construction and the property setters alone, over all combinations of lengths
NextCtor ==
    \/ \E a \in CtorArgs : Construct(a)
    \/ \E indices \in UNION {[1..K -> {0, 1}] : K \in 0..MaxSteps} : SetUnpoolIndices(indices)
    \/ \E value \in BOOLEAN : SetUseAdoptiveUnpool(value)

SpecCtor == Init /\ [][NextCtor]_vars

(***************************************************************************)
(* Properties of the constructor.                                          *)
(***************************************************************************)
\* whether the last call was the constructor
Constructed == call.op = "__init__"

\* the three lengths of the constructor's arguments agree with the declared
\* number of steps, len(graph_channels) - 1
DeclaredLengthsAgree ==
    /\ Len(call.args.unpool_indices) = Len(call.args.graph_channels) - 1
    /\ Len(call.args.aggregate_indices) = Len(call.args.graph_channels) - 1

\* the constructor's outcome is one of the two length errors
FailedOnLengths == call.outcome \in {"AssertionError", "ValueError: unpool indices"}

\* C7: construction passes the length validation exactly when
\* len(graph_channels)-1, len(unpool_indices) and len(aggregate_indices) are
\* equal; otherwise it fails before a layer or the template is created, and
\* no object exists. The setter of unpool_indices keeps the length at the
\* declared step count.
C7_LengthValidation ==
    /\ Constructed =>
          /\ ~FailedOnLengths <=> DeclaredLengthsAgree
          /\ FailedOnLengths => call.created = {} /\ dec = NoObject /\ pc = "failed"
    /\ call.op = "unpool_indices" =>
          (call.outcome = "ok" <=> Len(call.args) = dec.num_steps)
    /\ dec.exists => Len(dec.unpool_indices) = dec.num_steps

\* a construction refused because only the aggregation indices disagree
C7_Witness ==
    /\ Constructed
    /\ Len(call.args.unpool_indices) = Len(call.args.graph_channels) - 1
    /\ Len(call.args.aggregate_indices) # Len(call.args.unpool_indices)
    /\ call.outcome = "AssertionError"
    /\ call.created = {}

\* C8: with edge weighing and without coordinate propagation the
\* construction always fails (with the edge-weighing error when the lengths
\* agree); with the other three combinations of the two flags the
\* edge-weighing check does not fail.
C8_EdgeWeighing ==
    Constructed =>
        IF call.args.weighted_edges /\ ~call.args.propagate_coords
        THEN /\ call.outcome # "ok"
             /\ dec = NoObject
             /\ DeclaredLengthsAgree => call.outcome = "ValueError: edge weighing"
        ELSE call.outcome # "ValueError: edge weighing"

\* a construction with consistent lengths refused for edge weighing
\* without coordinate propagation
C8_Witness ==
    /\ Constructed
    /\ DeclaredLengthsAgree
    /\ call.args.weighted_edges
    /\ ~call.args.propagate_coords
    /\ call.outcome = "ValueError: edge weighing"

(***************************************************************************)
(* Properties of adaptive unpooling.                                       *)
(***************************************************************************)
\* the 0-based steps of decoder d whose unpool flag is set
FlaggedSteps(d) == {j \in 0..(Len(d.unpool_indices) - 1) : d.unpool_indices[j + 1] = 1}

\* C9 as stated: a decoder configured with adaptive unpooling is never
\* successfully constructed.
C9_AsStated ==
    Constructed /\ call.args.use_adoptive_unpool => call.outcome # "ok"

\* C9, amended: adaptive unpooling is not refused at construction; the
\* constructor stores the flag and succeeds. It is forward() that refuses
\* it, with NotImplementedError at the first step flagged to unpool, and so
\* no run of a decoder with the flag set and a flagged step returns.
C9_AdaptiveRefusedInForward ==
    /\ Constructed /\ call.args.use_adoptive_unpool =>
          /\ call.outcome = "ok"
          /\ dec.exists
          /\ dec.use_adoptive_unpool
    /\ call.op = "forward" /\ call.outcome = "NotImplementedError" =>
          /\ dec.use_adoptive_unpool
          /\ call.step \in FlaggedSteps(dec)
          /\ \A j \in FlaggedSteps(dec) : call.step <= j
          /\ ~ret.returned
    /\ call.op = "forward" /\ call.outcome = "returned" =>
          ~(dec.use_adoptive_unpool /\ FlaggedSteps(dec) # {})

\* a decoder constructed with adaptive unpooling whose run was refused at
\* its second step
C9_Witness ==
    /\ dec.exists
    /\ dec.use_adoptive_unpool
    /\ call.op = "forward"
    /\ call.outcome = "NotImplementedError"
    /\ call.step = 1

(***************************************************************************)
(* Properties of a decoder run.                                            *)
(***************************************************************************)
\* the undirected edges of a face list, as a set
UndirectedEdges(faces) ==
    UNION { {{faces[f][1], faces[f][2]}, {faces[f][2], faces[f][3]},
             {faces[f][3], faces[f][1]}} : f \in 1..Len(faces) }

\* the steps (1-based) whose mesh has been emitted in the current run
EmittedSteps == 1..(Len(fw.pred_meshes) - 1)

\* the decoder was built from the 12-vertex, 20-face template and is
\* configured with the flags [no-unpool, unpool]
IcoNoUnpoolThenUnpool ==
    /\ dec.exists
    /\ Len(dec.sphere_vertices[1]) = 12
    /\ Len(dec.sphere_faces[1]) = 20
    /\ dec.unpool_indices = <<0, 1>>

\* C1: the mesh emitted by a step has the vertex and face counts of the
\* previous mesh when the step's flag is 0, and V + E_unique vertices and
\* 4F faces when it is 1; the 12/20 template with flags [0, 1] gives
\* 12/20 after the first step and 42/80 after the second.
C1_UnpoolAtFlaggedSteps ==
    /\ \A j \in EmittedSteps : \A n \in 1..fw.batch_size :
          LET prev == fw.pred_meshes[j]
              new == fw.pred_meshes[j + 1]
          IN  IF dec.unpool_indices[j] = 1
              THEN /\ NumVerts(new, n) = NumVerts(prev, n)
                                           + Cardinality(UndirectedEdges(prev.faces[n]))
                   /\ NumFaces(new, n) = 4 * NumFaces(prev, n)
              ELSE /\ NumVerts(new, n) = NumVerts(prev, n)
                   /\ NumFaces(new, n) = NumFaces(prev, n)
    /\ IcoNoUnpoolThenUnpool /\ Len(fw.pred_meshes) = 3 =>
          \A n \in 1..fw.batch_size :
              /\ NumVerts(fw.pred_meshes[2], n) = 12
              /\ NumFaces(fw.pred_meshes[2], n) = 20
              /\ NumVerts(fw.pred_meshes[3], n) = 42
              /\ NumFaces(fw.pred_meshes[3], n) = 80

\* both steps of the 12/20 template with flags [0, 1] have been emitted
C1_Witness ==
    /\ IcoNoUnpoolThenUnpool
    /\ Len(fw.pred_meshes) = 3
    /\ NumVerts(fw.pred_meshes[2], 1) = 12
    /\ NumVerts(fw.pred_meshes[3], 1) = 42
    /\ NumFaces(fw.pred_meshes[3], 1) = 80

\* C2: a completed run of a decoder with K steps returns K+1 meshes and K+1
\* displacement fields; the first displacement is None, the others are
\* present, the one at position j being that of the mesh at position j.
C2_ReturnedSequences ==
    ret.returned =>
        /\ Len(ret.pred_meshes) = dec.num_steps + 1
        /\ Len(ret.pred_deltaV) = dec.num_steps + 1
        /\ ret.pred_deltaV[1].isNone
        /\ \A j \in 2..Len(ret.pred_deltaV) :
              /\ ~ret.pred_deltaV[j].isNone
              /\ Len(ret.pred_deltaV[j].val) = Len(ret.pred_meshes[j].verts)
              /\ \A n \in 1..Len(ret.pred_meshes[j].verts) :
                    /\ Len(ret.pred_deltaV[j].val[n]) = NumVerts(ret.pred_meshes[j], n)
                    /\ \A v \in 1..NumVerts(ret.pred_meshes[j], n) :
                          Len(ret.pred_deltaV[j].val[n][v]) = 3

\* a run of a decoder with two steps has returned
C2_Witness ==
    /\ ret.returned
    /\ dec.num_steps = 2
    /\ Len(ret.pred_meshes) = 3
    /\ ~ret.pred_deltaV[3].isNone

\* the positions of a mesh: the trailing three channels of its vertex rows
Positions(m) ==
    [n \in 1..Len(m.verts) |->
        [v \in 1..Len(m.verts[n]) |->
            SubSeq(m.verts[n][v], Len(m.verts[n][v]) - 2, Len(m.verts[n][v]))]]

\* C5: if the feature-to-vertex convolution of a step has all weights zero,
\* the displacement emitted for the step is zero at every vertex, and the
\* emitted mesh has the positions and faces that entered the step's
\* displacement stage.
C5_ZeroWeightsNoDisplacement ==
    \A j \in EmittedSteps :
        dec.f2v_layers[j].w = Wzero =>
            /\ \A n \in 1..fw.batch_size :
                  \A v \in 1..NumVerts(fw.pred_meshes[j + 1], n) :
                      fw.pred_deltaV[j + 1].val[n][v] = <<0, 0, 0>>
            /\ Positions(fw.pred_meshes[j + 1])
                   = StepInput(dec, fw.pred_meshes[j], j - 1).vertices_padded
            /\ fw.pred_meshes[j + 1].faces
                   = StepInput(dec, fw.pred_meshes[j], j - 1).faces_padded

\* a step with zero weights that also unpools has emitted its mesh
C5_Witness ==
    \E j \in EmittedSteps :
        /\ dec.f2v_layers[j].w = Wzero
        /\ dec.unpool_indices[j] = 1
        /\ fw.pred_deltaV[j + 1].val[1][1] = <<0, 0, 0>>
        /\ NumVerts(fw.pred_meshes[j + 1], 1) > NumVerts(fw.pred_meshes[j], 1)

RECURSIVE Closure(_, _)
\* the vertices joined to the set S by a path of face edges
Closure(S, faces) ==
    LET T == S \cup UNION { {faces[f][1], faces[f][2], faces[f][3]} :
                            f \in {g \in 1..Len(faces) :
                                      \/ faces[g][1] \in S
                                      \/ faces[g][2] \in S
                                      \/ faces[g][3] \in S} }
    IN  IF T = S THEN S ELSE Closure(T, faces)

RECURSIVE CountStructures(_, _)
\* the number of connected sub-meshes among the vertices left
CountStructures(left, faces) ==
    IF left = {} THEN 0
    ELSE 1 + CountStructures(left \ Closure({CHOOSE v \in left : TRUE}, faces), faces)

\* the structure count of batch member n of a mesh: the decoder's meshes
\* carry no structure dimension, a structure is a connected sub-mesh
StructureCount(m, n) ==
    CountStructures(0..(NumVerts(m, n) - 1), m.faces[n])

\* C6: every mesh of the emitted sequence, the initial template mesh
\* included, has the same structure count, for every batch member.
C6_StructureCountConstant ==
    \A j \in 1..Len(fw.pred_meshes) : \A n \in 1..fw.batch_size :
        StructureCount(fw.pred_meshes[j], n) = StructureCount(fw.pred_meshes[1], 1)

\* a two-structure template, unpooled by the first step of a batched run
C6_Witness ==
    /\ Len(fw.pred_meshes) >= 2
    /\ fw.batch_size = MaxBatch
    /\ dec.unpool_indices[1] = 1
    /\ StructureCount(fw.pred_meshes[1], 1) = 2
    /\ StructureCount(fw.pred_meshes[2], MaxBatch) = 2

(***************************************************************************)
(* Properties of uniform unpooling.                                        *)
(***************************************************************************)
\* the number of faces of a list that contain both ends of edge e
FacesSharing(e, faces) ==
    Cardinality({f \in 1..Len(faces) : e \subseteq {faces[f][1], faces[f][2], faces[f][3]}})

\* C3: unpooling a mesh with V vertices, F faces and E unique undirected
\* edges gives V+E vertices and 4F faces, one new vertex per unique edge
\* however many faces share it, each new vertex at the mean of the two ends
\* of an edge; the tetrahedron (4, 4, 6) gives 10 vertices and 16 faces.
C3_UnpoolCounts ==
    up.op = "unpool" =>
        LET V == Len(up.vertices_in)
            E == UndirectedEdges(up.faces_in)
        IN  /\ Len(up.vertices) = V + Cardinality(E)
            /\ Len(up.latent) = V + Cardinality(E)
            /\ Len(up.faces) = 4 * Len(up.faces_in)
            /\ \A r \in (V + 1)..Len(up.vertices) :
                  \E e \in E : \E a \in e : \E b \in e \ {a} :
                      /\ up.vertices[r] = MeanRow(up.vertices_in[a + 1], up.vertices_in[b + 1])
                      /\ up.latent[r] = MeanRow(up.latent_in[a + 1], up.latent_in[b + 1])
            /\ (V = 4 /\ up.faces_in = TetraFaces) =>
                  /\ Cardinality(E) = 6
                  /\ Len(up.vertices) = 10
                  /\ Len(up.faces) = 16

\* a mesh with an edge shared by three faces and an edge of a single face
\* has been unpooled
C3_Witness ==
    /\ up.op = "unpool"
    /\ \E e \in UndirectedEdges(up.faces_in) : FacesSharing(e, up.faces_in) = 3
    /\ \E e \in UndirectedEdges(up.faces_in) : FacesSharing(e, up.faces_in) = 1
    /\ Len(up.vertices) = Len(up.vertices_in) + Cardinality(UndirectedEdges(up.faces_in))
    /\ Len(up.faces) = 12

(***************************************************************************)
(* Properties of the packed and padded views.                              *)
(***************************************************************************)
\* C4 as stated: for every batch size, every structure count M >= 1 and any
\* lengths, unpack succeeds and pack(unpack(packed, lengths, N), lengths)
\* is the packed tensor again, row by row and value by value.
C4_AsStated ==
    /\ pk.op = "unpack" => pk.outcome = "ok"
    /\ pk.op = "pack" => pk.outcome = "ok" /\ pk.result = pk.packed

(***************************************************************************)
(* Properties of MeshesOfMeshes.                                           *)
(***************************************************************************)
\* the batch and the structure dimension of two padded tensors agree
SameBatchAndStructs(a, b) ==
    a.shape[1] = b.shape[1] /\ a.shape[2] = b.shape[2]

\* C10 as stated: constructing a MeshesOfMeshes from padded vertex and face
\* tensors that disagree in N or in M raises, and no object whose vertices
\* and faces disagree in N or M exists.
C10_AsStated ==
    /\ (/\ mom.op = "__init__"
        /\ NDim(mom.args.verts) = 4
        /\ NDim(mom.args.faces) = 4
        /\ ~SameBatchAndStructs(mom.args.verts, mom.args.faces))
          => mom.outcome # "ok"
    /\ mom.obj.exists => SameBatchAndStructs(mom.obj._verts_padded, mom.obj._faces_padded)

(***************************************************************************)
(* Properties of the packed views of MeshesOfMeshes.                       *)
(***************************************************************************)
\* element [n][m][r][c] (0-based n, m, r; 1-based c) of a padded 4-D tensor
PaddedAt(t, n, m, r, c) ==
    t.data[((n * t.shape[2] + m) * t.shape[3] + r) * t.shape[4] + c]

\* the object the last method was called on has vertices and faces of the
\* same batch size and structure count
UnitsAgree ==
    /\ mom.obj.exists
    /\ SameBatchAndStructs(mom.obj._verts_padded, mom.obj._faces_padded)

\* the (n, m) pairs of the object's vertex tensor, 0-based
UnitsOf(obj) ==
    (0..(obj._verts_padded.shape[1] - 1)) \X (0..(obj._verts_padded.shape[2] - 1))

\* C11 as stated: for N x M units of V vertices and F faces, faces_packed() has
\* N*M*F rows, the row of face f of unit (n, m) is row (n*M+m)*F+f and each
\* of its corners is the padded local index plus (n*M+m)*V; verts_packed()
\* has vertex v of (n, m) at row (n*M+m)*V+v.  So the packed corner of a
\* face addresses the vertex the padded face addressed, inside the rows of
\* its own unit.
C11_AsStated ==
    /\ (mom.op = "faces_packed" /\ UnitsAgree) =>
          LET vt == mom.obj._verts_padded
              ft == mom.obj._faces_padded
              M == vt.shape[2]
              V == vt.shape[3]
              F == ft.shape[3]
          IN  /\ mom.outcome = "ok"
              /\ Len(mom.result) = vt.shape[1] * M * F
              /\ \A u \in UnitsOf(mom.obj) : \A f \in 0..(F - 1) : \A c \in 1..ft.shape[4] :
                    LET local == PaddedAt(ft, u[1], u[2], f, c)
                        packed == mom.result[(u[1] * M + u[2]) * F + f + 1][c]
                    IN  /\ packed = local + (u[1] * M + u[2]) * V
                        /\ local \in 0..(V - 1) =>
                              /\ verts_packed(mom.obj).value[packed + 1]
                                    = [d \in 1..vt.shape[4] |-> PaddedAt(vt, u[1], u[2], local, d)]
                              /\ packed \in ((u[1] * M + u[2]) * V)..((u[1] * M + u[2] + 1) * V - 1)
    /\ mom.op = "verts_packed" =>
          LET vt == mom.obj._verts_padded
          IN  /\ mom.outcome = "ok"
              /\ Len(mom.result) = vt.shape[1] * vt.shape[2] * vt.shape[3]
              /\ \A u \in UnitsOf(mom.obj) : \A v \in 0..(vt.shape[3] - 1) :
                    mom.result[(u[1] * vt.shape[2] + u[2]) * vt.shape[3] + v + 1]
                        = [d \in 1..vt.shape[4] |-> PaddedAt(vt, u[1], u[2], v, d)]

\* the two endpoints of an edge row, as a set
Endpoints(e) == {e[1], e[2]}

\* C12 as stated: on a 3D object edges_packed() returns 3*N*M*F edges: the packed
\* triangle (a, b, c) of row k contributes {b, c}, {c, a} and {a, b} (rows
\* k, R+k and 2R+k of R = N*M*F faces), so both endpoints of an edge are
\* corners of one face and an edge of two faces is listed once for each; on
\* a 2D object edges_packed() equals faces_packed().
C12_AsStated ==
    (mom.op = "edges_packed" /\ UnitsAgree) =>
        LET faces == faces_packed(mom.before).value
            R == mom.before._verts_padded.shape[1] * mom.before._verts_padded.shape[2]
                     * mom.before._faces_padded.shape[3]
        IN  /\ mom.outcome = "ok"
            /\ mom.before.ndims = 3 =>
                  /\ Len(mom.result) = 3 * R
                  /\ \A k \in 1..R :
                        /\ Len(mom.result[k]) = 2
                        /\ Len(mom.result[R + k]) = 2
                        /\ Len(mom.result[2 * R + k]) = 2
                        /\ Endpoints(mom.result[k]) = {faces[k][2], faces[k][3]}
                        /\ Endpoints(mom.result[R + k]) = {faces[k][3], faces[k][1]}
                        /\ Endpoints(mom.result[2 * R + k]) = {faces[k][1], faces[k][2]}
            /\ mom.before.ndims = 2 => mom.result = faces

\* C13: move_verts(offset) with an offset of another shape than the padded
\* vertices raises and leaves the object as it was; with the same shape
\* every vertex becomes its old position plus the offset, faces, features
\* and every other field stay as they were, and the offset is not modified.
C13_MoveVerts ==
    mom.op = "move_verts" =>
        /\ mom.offset = mom.args
        /\ IF mom.args.shape # mom.before._verts_padded.shape
           THEN /\ mom.outcome # "ok"
                /\ mom.obj = mom.before
           ELSE /\ mom.outcome = "ok"
                /\ mom.obj._verts_padded.shape = mom.before._verts_padded.shape
                /\ Len(mom.obj._verts_padded.data) = Len(mom.before._verts_padded.data)
                /\ \A k \in 1..Len(mom.before._verts_padded.data) :
                      mom.obj._verts_padded.data[k]
                          = mom.before._verts_padded.data[k] + mom.args.data[k]
                /\ mom.obj._faces_padded = mom.before._faces_padded
                /\ mom.obj._features_padded = mom.before._features_padded
                /\ [mom.obj EXCEPT !._verts_padded = mom.before._verts_padded] = mom.before

\* an object with features whose vertices were moved by a non-zero offset
C13_Witness ==
    /\ mom.op = "move_verts"
    /\ mom.outcome = "ok"
    /\ mom.before.contains_features
    /\ mom.before._verts_padded.shape = <<2, 2, 3, 3>>
    /\ mom.obj._verts_padded # mom.before._verts_padded
    /\ mom.obj._features_padded = mom.before._features_padded

\* the batch, structure and vertex dimensions of a feature tensor are those
\* of a vertex tensor
FeatureDimsMatch(features, verts) ==
    /\ NDim(features) = 4
    /\ NDim(verts) = 4
    /\ \A d \in 1..3 : features.shape[d] = verts.shape[d]

\* C14: update_features(features) stores the features exactly when their
\* batch, structure and vertex dimensions are those of the vertices;
\* otherwise it raises and the object (features, vertices, faces) is as
\* before.  The constructor's call behaves the same: it succeeds with the
\* features stored, or raises and no object comes to exist.
C14_UpdateFeatures ==
    /\ mom.op = "update_features" =>
          IF FeatureDimsMatch(mom.args, mom.before._verts_padded)
          THEN /\ mom.outcome = "ok"
               /\ mom.obj._features_padded = Some(mom.args)
               /\ mom.obj._verts_padded = mom.before._verts_padded
               /\ mom.obj._faces_padded = mom.before._faces_padded
          ELSE /\ mom.outcome # "ok"
               /\ mom.obj = mom.before
    /\ (/\ mom.op = "__init__"
        /\ NDim(mom.args.verts) = 4
        /\ NDim(mom.args.faces) = 4
        /\ ~mom.args.features.isNone) =>
          IF FeatureDimsMatch(mom.args.features.val, mom.args.verts)
          THEN /\ mom.outcome = "ok"
               /\ mom.obj._features_padded = mom.args.features
               /\ mom.obj._verts_padded = mom.args.verts
               /\ mom.obj._faces_padded = mom.args.faces
          ELSE /\ mom.outcome # "ok"
               /\ ~mom.obj.exists

\* an object that has features refused features of one more vertex per
\* unit and kept the features it had
C14_Witness ==
    /\ mom.op = "update_features"
    /\ mom.outcome # "ok"
    /\ NDim(mom.args) = 4
    /\ mom.args.shape[3] = mom.before._verts_padded.shape[3] + 1
    /\ mom.before.contains_features
    /\ mom.obj._features_padded = mom.before._features_padded
    /\ mom.obj._features_padded # Some(mom.args)

(***************************************************************************)
(* Properties of the padding of face tensors.                              *)
(***************************************************************************)
\* the entries of a packed tensor of index rows
PackedEntries(packed) == {packed.data[k] : k \in DOMAIN packed.data}

\* C15 as stated: in a padded face tensor that unpack produced, every slot
\* past the length of its structure holds an out-of-range value and never a
\* vertex index of the mesh (the mesh has the vertices 0 .. largest index
\* of its packed faces).
C15_AsStated ==
    (pk.op = "unpack" /\ pk.outcome = "ok") =>
        \A n \in 0..(pk.padded.shape[1] - 1) : \A m \in 0..(pk.padded.shape[2] - 1) :
            \A l \in 0..(pk.padded.shape[3] - 1) : \A c \in 1..pk.padded.shape[4] :
                l >= pk.lengths[m + 1] =>
                    ~(/\ PaddedAt(pk.padded, n, m, l, c) >= 0
                      /\ PaddedAt(pk.padded, n, m, l, c) <= MaxOf(PackedEntries(pk.packed)))

\* a face tensor over V vertices per unit holds an index that is neither
\* in [0, V) nor the padding value -1
HasStrayIndex(faces, V) ==
    \E k \in DOMAIN faces.data : faces.data[k] \notin ((0 - 1)..(V - 1))

\* C16 as stated: a face index that is neither in [0, V) nor the padding
\* value is detected and raised: either no object is constructed from such
\* a face tensor, or faces_packed() and edges_packed() of the object raise
\* and return no result.
C16_AsStated ==
    (/\ mom.op \in {"faces_packed", "edges_packed"}
     /\ HasStrayIndex(mom.before._faces_padded, mom.before._verts_padded.shape[3]))
        => mom.outcome # "ok"

(***************************************************************************)
(* Properties of repeated decoder invocations.                             *)
(***************************************************************************)
\* the step is the return statement of forward()
IsReturnStep == pc = "loop" /\ pc' = "idle" /\ call'.outcome = "returned"

\* C17: no step of any invocation changes the stored template (vertex
\* positions and faces), so after any number of invocations it is the
\* template the constructor stored; and the meshes and displacements an
\* invocation returned stay as they are while a later invocation runs,
\* until its return statement hands over its own, new lists.
C17_TemplateAndResultsKept ==
    [][/\ (dec.exists /\ dec'.exists) =>
             /\ dec'.sphere_vertices = dec.sphere_vertices
             /\ dec'.sphere_faces = dec.sphere_faces
       /\ (ret.returned /\ ~IsReturnStep) => ret' = ret
       /\ dec.exists => dec'.exists]_vars

\* a second invocation with another batch size has moved the vertices of
\* an unpooled mesh while the result of the first invocation is held
C17_Witness ==
    /\ fw.runs = 2
    /\ pc = "loop"
    /\ fw.i >= 1
    /\ ret.returned
    /\ Len(ret.pred_meshes) >= 2
    /\ fw.batch_size # Len(ret.pred_meshes[1].verts)
    /\ Len(fw.pred_meshes[fw.i + 1].verts[1]) > Len(dec.sphere_vertices[1])
    /\ \E v \in DOMAIN fw.pred_deltaV[fw.i + 1].val[1] :
          \E c \in 1..3 : fw.pred_deltaV[fw.i + 1].val[1][v][c] # 0

(***************************************************************************)
(* Properties of the batch members of one mesh.                            *)
(***************************************************************************)
\* the difference of two rows
SubRow(a, b) == [c \in 1..Len(a) |-> a[c] - b[c]]

\* C18: in every mesh of the run all batch members have the same number of
\* vertices and the same face list, face by face and corner by corner,
\* however their vertices were displaced; and at a step that unpools, the
\* vertex inserted at an index is, in every batch member, the midpoint of
\* the same edge of the previous mesh (found as the emitted position less
\* the emitted displacement).
C18_BatchMembersAligned ==
    /\ \A k \in 1..Len(fw.pred_meshes) :
          \A n \in 1..Len(fw.pred_meshes[k].verts) :
              /\ Len(fw.pred_meshes[k].faces) = Len(fw.pred_meshes[k].verts)
              /\ NumVerts(fw.pred_meshes[k], n) = NumVerts(fw.pred_meshes[k], 1)
              /\ fw.pred_meshes[k].faces[n] = fw.pred_meshes[k].faces[1]
    /\ \A j \in EmittedSteps :
          dec.unpool_indices[j] = 1 =>
              LET prev == fw.pred_meshes[j]
                  new == fw.pred_meshes[j + 1]
              IN  \A v \in (NumVerts(prev, 1) + 1)..NumVerts(new, 1) :
                      \E e \in UndirectedEdges(prev.faces[1]) : \E a \in e : \E b \in e \ {a} :
                          \A n \in 1..fw.batch_size :
                              SubRow(Positions(new)[n][v], fw.pred_deltaV[j + 1].val[n][v])
                                  = MeanRow(Positions(prev)[n][a + 1], Positions(prev)[n][b + 1])

\* a batch of two has passed a step that unpools, and the two members'
\* vertices were displaced differently
C18_Witness ==
    /\ fw.batch_size = 2
    /\ \E j \in EmittedSteps :
          /\ dec.unpool_indices[j] = 1
          /\ NumVerts(fw.pred_meshes[j + 1], 1) > NumVerts(fw.pred_meshes[j], 1)
          /\ fw.pred_deltaV[j + 1].val[1] # fw.pred_deltaV[j + 1].val[2]
          /\ fw.pred_meshes[j + 1].faces[1] = fw.pred_meshes[j + 1].faces[2]

(***************************************************************************)
(* Properties of the widths of the aggregated features.                    *)
(***************************************************************************)
\* the sum of the channel counts of exactly the maps listed in agg
ListedChannels(skip_channels, agg) ==
    SumSeq([k \in 1..Len(agg) |-> skip_channels[agg[k] + 1]])

\* C19 as stated: for every step and every aggregation index set, the
\* aggregated feature vector of a vertex has as many entries as the listed
\* maps have channels together, and the first residual block of the step is
\* declared with the input width previous latent width + that sum + 3 if
\* the coordinates are propagated.
C19_AsStated ==
    /\ (call.op = "__init__" /\ call.outcome = "ok") =>
          \A i \in 1..dec.num_steps :
              dec.f2f_res_layers[i][1].in
                  = dec.latent_features_count[i]
                    + ListedChannels(call.args.skip_channels, dec.aggregate_indices[i])
                    + AddN(dec.propagate_coords)
    /\ (pc = "loop" /\ fw.i < NumIterations(dec)) =>
          \A n \in 1..fw.batch_size : \A v \in 1..NumVerts(fw.pred_meshes[fw.i + 1], n) :
              Len(aggregate_from_indices(SkipMaps(fw.batch_size),
                                         Positions(fw.pred_meshes[fw.i + 1]),
                                         dec.aggregate_indices[fw.i + 1])[n][v])
                  = ListedChannels(SkipChannels, dec.aggregate_indices[fw.i + 1])

(***************************************************************************)
(* Properties of trilinear sampling.                                       *)
(***************************************************************************)
\* pos is the centre of voxel idx of a map with R voxels per axis
IsVoxelCentre(pos, idx, R) ==
    \A d \in 1..3 : pos[d] * (R - 1) = (2 * idx[d] - (R - 1)) * Unit

\* C20: sampling a feature map at the normalised coordinate of a voxel
\* centre returns the feature vector stored at that voxel, for every
\* resolution of the map.
C20_InterpolationIdentity ==
    smp.op = "sample" =>
        \A idx \in (0..(smp.resolution - 1)) \X (0..(smp.resolution - 1))
                       \X (0..(smp.resolution - 1)) :
            IsVoxelCentre(smp.position, idx, smp.resolution)
                => smp.value = VoxelFeature(smp.resolution, idx)

\* the map of five voxels per axis sampled at the centre of the inner voxel
\* (1, 2, 3), whose neighbours store other features
C20_Witness ==
    /\ smp.op = "sample"
    /\ smp.resolution = 5
    /\ IsVoxelCentre(smp.position, <<1, 2, 3>>, 5)
    /\ smp.value = VoxelFeature(5, <<1, 2, 3>>)
    /\ smp.value # VoxelFeature(5, <<2, 2, 3>>)
    /\ smp.value # VoxelFeature(5, <<1, 2, 2>>)

(***************************************************************************)
(* Properties of the steps of a run.                                       *)
(***************************************************************************)
\* the sum of two rows
AddRow(a, b) == [c \in 1..Len(a) |-> a[c] + b[c]]

\* C21: for every emitted step, batch member and vertex, the position in
\* the emitted mesh (its three trailing channels) is the vertex's current
\* position of the step, i.e. that of the previous mesh, unpooled when the
\* step unpools, plus the displacement emitted for the step at the same
\* batch member and vertex.
C21_PositionPlusDisplacement ==
    \A j \in EmittedSteps :
        LET current == StepInput(dec, fw.pred_meshes[j], j - 1).vertices_padded
            new == fw.pred_meshes[j + 1]
        IN  /\ Len(new.verts) = fw.batch_size
            /\ \A n \in 1..fw.batch_size :
                  /\ NumVerts(new, n) = Len(current[n])
                  /\ Len(fw.pred_deltaV[j + 1].val[n]) = Len(current[n])
                  /\ \A v \in 1..Len(current[n]) :
                        Positions(new)[n][v]
                            = AddRow(current[n][v], fw.pred_deltaV[j + 1].val[n][v])

\* a step that unpools has emitted, for a batch of two, a mesh whose
\* inserted vertices were displaced
C21_Witness ==
    /\ fw.batch_size = 2
    /\ \E j \in EmittedSteps :
          /\ dec.unpool_indices[j] = 1
          /\ \E v \in (NumVerts(fw.pred_meshes[j], 2) + 1)..NumVerts(fw.pred_meshes[j + 1], 2) :
                /\ fw.pred_deltaV[j + 1].val[2][v] # <<0, 0, 0>>
                /\ Positions(fw.pred_meshes[j + 1])[2][v]
                      = AddRow(StepInput(dec, fw.pred_meshes[j], j - 1).vertices_padded[2][v],
                               fw.pred_deltaV[j + 1].val[2][v])

\* the mesh and the displacement step i (0-based) computes from a mesh
StepResult(prev_meshes, i) ==
    DecoderStep(dec, SkipMaps(fw.batch_size), fw.batch_size, prev_meshes, i)

\* C22: a run executes the steps 0, 1, ..., K-1 in this order, each once,
\* and then returns: while the run goes on, every transition executes the
\* step whose number is the count of steps done, on the mesh appended last
\* (the initial mesh for step 0), and appends its mesh and displacement
\* behind those already emitted, which stay as they are; a step that
\* raises ends the run with its error and without a result; the run
\* returns exactly the emitted sequences, and only after step K-1.
C22_StepsInOrder ==
    [][/\ (pc = "loop" /\ pc' = "loop") =>
             /\ fw.i < dec.num_steps
             /\ fw'.i = fw.i + 1
             /\ Len(fw.pred_meshes) = fw.i + 1
             /\ Len(fw.pred_deltaV) = fw.i + 1
             /\ fw'.pred_meshes
                   = Append(fw.pred_meshes,
                            StepResult(fw.pred_meshes[Len(fw.pred_meshes)], fw.i).new_meshes)
             /\ fw'.pred_deltaV
                   = Append(fw.pred_deltaV,
                            Some(StepResult(fw.pred_meshes[Len(fw.pred_meshes)],
                                            fw.i).deltaV_padded))
       /\ (pc = "loop" /\ pc' = "idle" /\ call'.outcome # "returned") =>
             /\ fw.i < dec.num_steps
             /\ call'.step = fw.i
             /\ call'.outcome = StepResult(fw.pred_meshes[Len(fw.pred_meshes)], fw.i).outcome
             /\ call'.outcome # "ok"
             /\ ret' = ret
       /\ (pc = "idle" /\ pc' = "loop") =>
             /\ fw'.i = 0
             /\ fw'.pred_meshes = <<InitialMeshes(dec, fw'.batch_size).meshes>>
       /\ (pc = "loop" /\ pc' = "idle" /\ call'.outcome = "returned") =>
             /\ fw.i = dec.num_steps
             /\ ret'.pred_meshes = fw.pred_meshes
             /\ ret'.pred_deltaV = fw.pred_deltaV]_vars

\* the second step of a run has worked on the mesh of the first step, which
\* differs from the initial mesh, and both meshes are in the sequence
C22_Witness ==
    /\ pc = "loop"
    /\ fw.i = 2
    /\ Len(fw.pred_meshes) = 3
    /\ fw.pred_meshes[2] # fw.pred_meshes[1]
    /\ fw.pred_meshes[3] = StepResult(fw.pred_meshes[2], 1).new_meshes
    /\ fw.pred_meshes[3] # fw.pred_meshes[2]

(***************************************************************************)
(* Properties of the edge lists.                                           *)
(***************************************************************************)
\* the packed neighbour sets derived from padded faces over V vertices per
\* batch member
TopologyEdges(faces_padded, V) ==
    [k \in 1..(Len(faces_padded) * V) |->
        {w + ((k - 1) \div V) * V :
            w \in UNION {e \ {(k - 1) % V} :
                            e \in {x \in UndirectedEdges(faces_padded[((k - 1) \div V) + 1]) :
                                      (k - 1) % V \in x}}}]
        \o <<>>

\* the mesh step j (1-based) works on: the previous mesh, unpooled when the
\* step is flagged, with the aggregated features
CurrentMesh(j) ==
    StepFeatures(dec, SkipMaps(fw.batch_size), j - 1,
                 StepInput(dec, fw.pred_meshes[j], j - 1))

\* step j computed with the edges of the given faces
StepWithEdgesOf(mesh, j) ==
    StepConvolve(dec, j - 1, fw.batch_size, mesh.faces,
                 TopologyEdges(mesh.faces, Len(mesh.verts[1])),
                 Meshes_verts_packed(mesh) \o <<>>)

\* what a step result appends to the two lists
Emitted(r) ==
    [outcome |-> r.outcome, mesh |-> r.new_meshes, deltaV |-> Some(r.deltaV_padded)]

\* C23: what a step emits is what its graph convolutions compute on the
\* edges of the faces current in the step (the faces after unpooling when
\* the step unpools), never on those of an earlier topology; and the edges
\* a MeshesOfMeshes object has cached are the edges of its faces, whatever
\* move_verts and update_features calls followed.
C23_EdgesOfCurrentFaces ==
    /\ \A j \in EmittedSteps :
          Emitted(StepWithEdgesOf(CurrentMesh(j), j))
              = [outcome |-> "ok", mesh |-> fw.pred_meshes[j + 1],
                 deltaV |-> fw.pred_deltaV[j + 1]]
    /\ (mom.obj.exists /\ ~mom.obj._edges_packed.isNone) =>
          /\ faces_packed(mom.obj).outcome = "ok"
          /\ mom.obj._edges_packed.val
                = IF mom.obj.ndims = 3 THEN EdgesOfFaces(faces_packed(mom.obj).value)
                  ELSE faces_packed(mom.obj).value

\* a step that unpools has emitted its mesh: its faces are not those the
\* step started from
C23_Witness ==
    /\ fw.batch_size = 2
    /\ \E j \in EmittedSteps :
          /\ dec.unpool_indices[j] = 1
          /\ fw.pred_meshes[j + 1].faces # fw.pred_meshes[j].faces
          /\ TopologyEdges(fw.pred_meshes[j + 1].faces, NumVerts(fw.pred_meshes[j + 1], 1))
                # TopologyEdges(fw.pred_meshes[j].faces, NumVerts(fw.pred_meshes[j + 1], 1))
          /\ fw.pred_meshes[j + 1] = StepWithEdgesOf(CurrentMesh(j), j).new_meshes

(***************************************************************************)
(* Properties of unpooling inside a run.                                   *)
(***************************************************************************)
\* the first V rows of what the step works on are the rows of the previous
\* mesh, V being the previous vertex count
OldRowsKept(prev_rows, rows) ==
    /\ Len(rows) = Len(prev_rows)
    /\ \A n \in 1..Len(rows) :
          /\ Len(rows[n]) >= Len(prev_rows[n])
          /\ SubSeq(rows[n], 1, Len(prev_rows[n])) = prev_rows[n]

\* cur, what a step works on, keeps the vertices of prev, the rows of the
\* previous mesh, and new_mesh, the mesh the step emits, has the vertices
\* of cur; when the step unpools, flagged, the corner triangles of the
\* faces of new_mesh start at the old corners of prev_faces and go on with
\* inserted vertices
KeptThroughStep(prev, cur, prev_faces, new_mesh, flagged) ==
    /\ OldRowsKept(prev.vertices_padded, cur.vertices_padded)
    /\ OldRowsKept(prev.latent_features_padded, cur.latent_features_padded)
    /\ \A n \in 1..Len(prev.vertices_padded) :
          /\ Len(cur.latent_features_padded[n]) = Len(cur.vertices_padded[n])
          /\ NumVerts(new_mesh, n) = Len(cur.vertices_padded[n])
          /\ NumVerts(new_mesh, n) >= Len(prev.vertices_padded[n])
          /\ flagged =>
                \A f \in 1..Len(prev_faces[n]) : \A c \in 1..3 :
                    /\ new_mesh.faces[n][4 * (f - 1) + c][1] = prev_faces[n][f][c]
                    /\ new_mesh.faces[n][4 * (f - 1) + c][2] >= Len(prev.vertices_padded[n])
                    /\ new_mesh.faces[n][4 * (f - 1) + c][3] >= Len(prev.vertices_padded[n])

\* C24: unpooling never removes or renumbers a vertex: in what a step works
\* on, every vertex of the previous mesh is at its old index with its old
\* position and latent features, the inserted vertices follow from index V
\* on (as many positions as latent rows), the faces that use an inserted
\* vertex name it by an index >= V, and the vertex count of the emitted
\* meshes never decreases from one step to the next.
C24_VerticesKept ==
    \A j \in EmittedSteps :
        /\ Len(fw.pred_meshes[j].verts) = fw.batch_size
        /\ KeptThroughStep(ReadPrev(fw.pred_meshes[j]),
                           StepInput(dec, fw.pred_meshes[j], j - 1),
                           fw.pred_meshes[j].faces, fw.pred_meshes[j + 1],
                           dec.unpool_indices[j] = 1)

\* two unpooling steps in a row have emitted their meshes, each with more
\* vertices than the mesh before, and the second step has moved the old
\* vertices after they had been kept
C24_Witness ==
    /\ fw.batch_size = 2
    /\ Len(fw.pred_meshes) = 3
    /\ dec.unpool_indices = <<1, 1>>
    /\ NumVerts(fw.pred_meshes[2], 2) > NumVerts(fw.pred_meshes[1], 2)
    /\ NumVerts(fw.pred_meshes[3], 2) > NumVerts(fw.pred_meshes[2], 2)
    /\ OldRowsKept(ReadPrev(fw.pred_meshes[2]).vertices_padded,
                   StepInput(dec, fw.pred_meshes[2], 1).vertices_padded)
    /\ \E v \in 1..NumVerts(fw.pred_meshes[2], 2) :
          Positions(fw.pred_meshes[3])[2][v] # Positions(fw.pred_meshes[2])[2][v]

(***************************************************************************)
(* Properties of the unpooled topology.                                    *)
(***************************************************************************)
\* every undirected edge of the faces is shared by exactly two faces
Manifold(faces) ==
    \A e \in UndirectedEdges(faces) : FacesSharing(e, faces) = 2

\* the indices the unpooled faces use for the vertex inserted on edge e of
\* the faces unpooled: the second entry of the corner triangle of one end,
\* the third entry of the corner triangle of the other end
MidpointsOf(e) ==
    {up.faces[4 * (f - 1) + c][2] :
        <<f, c>> \in {x \in (1..Len(up.faces_in)) \X (1..3) :
                        {up.faces_in[x[1]][x[2]], up.faces_in[x[1]][(x[2] % 3) + 1]} = e}}
    \cup
    {up.faces[4 * (f - 1) + c][3] :
        <<f, c>> \in {x \in (1..Len(up.faces_in)) \X (1..3) :
                        {up.faces_in[x[1]][x[2]], up.faces_in[x[1]][((x[2] + 1) % 3) + 1]} = e}}

\* no two faces have the same three corners
DistinctFaces(faces) ==
    \A f \in 1..Len(faces) : \A g \in 1..Len(faces) :
        {faces[f][1], faces[f][2], faces[f][3]} = {faces[g][1], faces[g][2], faces[g][3]}
            => f = g

\* the result of the unpooling is the subdivision of its input: triangle f
\* is replaced by the three corner triangles (vi, mid(vi,vj), mid(vi,vk))
\* and the centre triangle of its three midpoints, mid being one inserted
\* vertex per edge at the mean of the edge's ends, and every index of the
\* result is in [0, V+E)
Subdivided ==
    /\ Len(up.faces) = 4 * Len(up.faces_in)
    /\ \A e \in UndirectedEdges(up.faces_in) :
          /\ Cardinality(MidpointsOf(e)) = 1
          /\ \A m \in MidpointsOf(e) :
                /\ m >= Len(up.vertices_in)
                /\ \E a \in e : \E b \in e \ {a} :
                      up.vertices[m + 1]
                          = MeanRow(up.vertices_in[a + 1], up.vertices_in[b + 1])
          /\ \A e2 \in UndirectedEdges(up.faces_in) \ {e} :
                MidpointsOf(e2) \cap MidpointsOf(e) = {}
    /\ \A f \in 1..Len(up.faces_in) :
          /\ \A c \in 1..3 : up.faces[4 * (f - 1) + c][1] = up.faces_in[f][c]
          /\ up.faces[4 * f] = <<up.faces[4 * (f - 1) + 1][2],
                                 up.faces[4 * (f - 1) + 2][2],
                                 up.faces[4 * (f - 1) + 3][2]>>
    /\ \A k \in 1..Len(up.faces) : \A c \in 1..3 :
          /\ up.faces[k][c] >= 0
          /\ up.faces[k][c] < Len(up.vertices_in)
                                + Cardinality(UndirectedEdges(up.faces_in))

\* C25 as stated: unpooling a triangle mesh in which every undirected edge
\* is shared by exactly two faces gives the subdivision described, in which
\* every undirected edge is again shared by exactly two faces.
C25_AsStated ==
    (up.op = "unpool" /\ Manifold(up.faces_in)) =>
        /\ Subdivided
        /\ Manifold(up.faces)

\* C25: unpooling a triangle mesh in which every undirected edge is shared
\* by exactly two faces and no two faces have the same three corners gives
\* the subdivision described (corner triangles, centre triangle, indices in
\* [0, V+E)), in which again every undirected edge is shared by exactly two
\* faces and no two faces have the same three corners.
C25_ManifoldKept ==
    (up.op = "unpool" /\ Manifold(up.faces_in) /\ DistinctFaces(up.faces_in)) =>
        /\ Subdivided
        /\ Manifold(up.faces)
        /\ DistinctFaces(up.faces)

\* the tetrahedron has been unpooled twice: 16 manifold faces went in, 64
\* manifold faces over 34 vertices came out
C25_Witness ==
    /\ up.op = "unpool"
    /\ Len(up.faces_in) = 16
    /\ Manifold(up.faces_in)
    /\ Len(up.faces) = 64
    /\ Len(up.vertices) = 34
    /\ DistinctFaces(up.faces_in)
    /\ Subdivided
    /\ Manifold(up.faces)

(***************************************************************************)
(* Properties of a run with adaptive unpooling enabled.                    *)
(***************************************************************************)
\* the run is at a step flagged to unpool
AtFlaggedStep ==
    /\ pc = "loop"
    /\ fw.i < dec.num_steps
    /\ dec.unpool_indices[fw.i + 1] = 1

\* C26: in a run of a decoder with adaptive unpooling enabled, by the
\* constructor or by the setter, no emitted mesh comes from an unpooling
\* step: when the run is at its first flagged step it raises
\* NotImplementedError at that step, nothing is appended for the step and
\* nothing is returned; a run that returns has had no flagged step.
C26_AdaptiveRunRefused ==
    [][ (pc = "loop" /\ dec.use_adoptive_unpool) =>
          /\ dec'.use_adoptive_unpool
          /\ \A j \in EmittedSteps : dec.unpool_indices[j] = 0
          /\ AtFlaggedStep =>
                /\ pc' = "idle"
                /\ call'.op = "forward"
                /\ call'.outcome = "NotImplementedError"
                /\ call'.step = fw.i
                /\ \A j \in FlaggedSteps(dec) : fw.i <= j
                /\ Len(fw.pred_meshes) = fw.i + 1
                /\ Len(fw.pred_deltaV) = fw.i + 1
                /\ fw'.pred_meshes = <<>>
                /\ fw'.pred_deltaV = <<>>
                /\ ret' = ret
                /\ ~ret'.returned
          /\ ~AtFlaggedStep =>
                /\ call'.outcome # "NotImplementedError"
                /\ pc' = "loop" =>
                      /\ Len(fw'.pred_meshes) = Len(fw.pred_meshes) + 1
                      /\ dec.unpool_indices[fw.i + 1] = 0
                /\ pc' = "idle" =>
                      /\ call'.outcome = "returned"
                      /\ FlaggedSteps(dec) = {}
                      /\ ret'.pred_meshes = fw.pred_meshes
                      /\ \A n \in 1..fw.batch_size :
                            \A j \in 1..Len(ret'.pred_meshes) :
                                NumVerts(ret'.pred_meshes[j], n)
                                    = NumVerts(ret'.pred_meshes[1], n)
      ]_vars

\* a run of a decoder with adaptive unpooling enabled has emitted the mesh
\* of its first step, which does not unpool, and was refused at its second
\* step, which does; nothing was returned
C26_Witness ==
    /\ dec.exists
    /\ dec.use_adoptive_unpool
    /\ dec.unpool_indices = <<0, 1>>
    /\ call.op = "forward"
    /\ call.outcome = "NotImplementedError"
    /\ call.step = 1
    /\ call.args = 2
    /\ fw.pred_meshes = <<>>
    /\ ~ret.returned

(***************************************************************************)
(* Properties of the per-vertex layout of the emitted meshes.              *)
(***************************************************************************)
\* C27 as stated: every mesh of the emitted sequence, the initial mesh and
\* the mesh of the last step included, with and without coordinate
\* propagation, has per-vertex rows of width graph_channels[i] + 3: the
\* latent features of the stage followed by one copy of the three
\* coordinates.
C27_AsStated ==
    \A j \in 1..Len(fw.pred_meshes) :
        \A n \in 1..fw.batch_size :
            \A v \in 1..NumVerts(fw.pred_meshes[j], n) :
                Len(fw.pred_meshes[j].verts[n][v]) = dec.latent_features_count[j] + 3

(***************************************************************************)
(* Properties of the packed features.                                      *)
(***************************************************************************)
\* packed is the padded features f flattened to (N*M*V, C), the row of
\* vertex v of unit (n, m) at (n*M+m)*V+v
FlattenedFrom(f, packed) ==
    /\ ~packed.isNone
    /\ Len(packed.val) = f.shape[1] * f.shape[2] * f.shape[3]
    /\ \A n \in 0..(f.shape[1] - 1) : \A m \in 0..(f.shape[2] - 1) :
          \A v \in 0..(f.shape[3] - 1) :
              packed.val[(n * f.shape[2] + m) * f.shape[3] + v + 1]
                  = [c \in 1..f.shape[4] |-> PaddedAt(f, n, m, v, c)]

\* C28 as stated: after a successful update_features(f), on an object
\* constructed with features or without, the padded features are f and
\* features_packed() returns f flattened to (N*M*V, C) in the row order of
\* verts_packed().
C28_AsStated ==
    /\ (mom.op = "update_features" /\ mom.outcome = "ok") =>
          /\ mom.obj._features_padded = Some(mom.args)
          /\ FlattenedFrom(mom.args, features_packed(mom.obj).value)
    /\ (mom.op = "features_packed" /\ ~mom.before._features_padded.isNone) =>
          /\ mom.outcome = "ok"
          /\ FlattenedFrom(mom.before._features_padded.val, [isNone |-> mom.result.isNone,
                                                            val |-> IF mom.result.isNone THEN <<>>
                                                                    ELSE mom.result.val])

(***************************************************************************)
(* Properties of padded face slots in the packed views.                    *)
(***************************************************************************)
\* entry x of a packed row of unit number u (0-based) over V vertices per
\* unit is an index of the unit's own vertices or the padding value
OwnIndexOrPadding(x, u, V) ==
    x = 0 - 1 \/ x \in (u * V)..((u + 1) * V - 1)

\* C29 as stated: in faces_packed(), and so in edges_packed(), every entry
\* of a face row of unit u is an index in [u*V, (u+1)*V) or still the
\* padding value; a padded slot (-1) of the padded view never becomes the
\* index of a vertex of the same or of another unit.
C29_AsStated ==
    (/\ mom.op \in {"faces_packed", "edges_packed"}
     /\ mom.outcome = "ok"
     /\ UnitsAgree
     /\ ~HasStrayIndex(mom.before._faces_padded, mom.before._verts_padded.shape[3])) =>
        LET vt == mom.before._verts_padded
            ft == mom.before._faces_padded
            M == vt.shape[2]
            V == vt.shape[3]
            F == ft.shape[3]
            rows == IF mom.op = "faces_packed" \/ mom.before.ndims # 3 THEN 1 ELSE 3
        IN  /\ Len(mom.result) = rows * vt.shape[1] * M * F
            /\ \A r \in 0..(Len(mom.result) - 1) : \A c \in DOMAIN mom.result[r + 1] :
                  /\ OwnIndexOrPadding(mom.result[r + 1][c],
                                       (r % (vt.shape[1] * M * F)) \div F, V)
                  /\ (\A k \in 1..ft.shape[4] :
                         PaddedAt(ft, ((r % (vt.shape[1] * M * F)) \div F) \div M,
                                  ((r % (vt.shape[1] * M * F)) \div F) % M,
                                  (r % (vt.shape[1] * M * F)) % F, k) = 0 - 1)
                        => mom.result[r + 1][c] \notin 0..(vt.shape[1] * M * V - 1)

(***************************************************************************)
(* Properties of the joint unpooling of positions and latent features.     *)
(***************************************************************************)
\* in batch member n, vertex m of the unpooled rows cur is the midpoint of
\* vertices a and b of the rows prev, in position and in latent features
MidpointOfBoth(prev, cur, n, m, a, b) ==
    /\ cur.vertices_padded[n][m + 1]
          = MeanRow(prev.vertices_padded[n][a + 1], prev.vertices_padded[n][b + 1])
    /\ cur.latent_features_padded[n][m + 1]
          = MeanRow(prev.latent_features_padded[n][a + 1],
                    prev.latent_features_padded[n][b + 1])

\* cur, what a flagged step works on, is the joint subdivision of prev, the
\* rows and faces of the previous mesh, and new_faces are its faces
JointlySubdivided(prev, cur, new_faces) ==
    \A n \in 1..Len(prev.faces_padded) :
        /\ Len(cur.vertices_padded[n])
              = Len(prev.vertices_padded[n])
                  + Cardinality(UndirectedEdges(prev.faces_padded[n]))
        /\ Len(cur.latent_features_padded[n]) = Len(cur.vertices_padded[n])
        /\ new_faces = cur.faces_padded
        /\ \A m \in Len(prev.vertices_padded[n])..(Len(cur.vertices_padded[n]) - 1) :
              \E f \in 1..Len(prev.faces_padded[n]) : \E c \in 1..3 :
                  MidpointOfBoth(prev, cur, n, m, prev.faces_padded[n][f][c],
                                 prev.faces_padded[n][f][(c % 3) + 1])
        /\ \A f \in 1..Len(prev.faces_padded[n]) : \A c \in 1..3 :
              MidpointOfBoth(prev, cur, n, new_faces[n][4 * (f - 1) + c][2],
                             prev.faces_padded[n][f][c],
                             prev.faces_padded[n][f][(c % 3) + 1])

\* C30: in a step flagged to unpool, positions and latent features are
\* subdivided against the same faces, those of the previous mesh, and the
\* faces carried forward are the ones returned with the positions: both
\* have the same new vertex count, every inserted vertex is, in position
\* and in latent features, the midpoint of one and the same edge of the
\* previous faces, and it is the vertex the emitted faces use between the
\* two ends of that edge.
C30_JointSubdivision ==
    \A j \in EmittedSteps :
        dec.unpool_indices[j] = 1 =>
            /\ Len(fw.pred_meshes[j].faces) = fw.batch_size
            /\ \A n \in 1..fw.batch_size :
                  NumVerts(fw.pred_meshes[j + 1], n)
                      = NumVerts(fw.pred_meshes[j], n)
                          + Cardinality(UndirectedEdges(fw.pred_meshes[j].faces[n]))
            /\ JointlySubdivided(ReadPrev(fw.pred_meshes[j]),
                                 StepInput(dec, fw.pred_meshes[j], j - 1),
                                 fw.pred_meshes[j + 1].faces)

\* the second of two unpooling steps has emitted its mesh for a batch of
\* two: the vertex its faces put on an edge of the previous mesh is the
\* midpoint of that edge in position and in latent features, and the two
\* ends differ in both
C30_Witness ==
    /\ fw.batch_size = 2
    /\ Len(fw.pred_meshes) = 3
    /\ dec.unpool_indices = <<1, 1>>
    /\ JointlySubdivided(ReadPrev(fw.pred_meshes[2]), StepInput(dec, fw.pred_meshes[2], 1),
                         fw.pred_meshes[3].faces)
    /\ \E f \in 1..Len(fw.pred_meshes[2].faces[2]) :
          /\ ReadPrev(fw.pred_meshes[2]).latent_features_padded[2][fw.pred_meshes[2].faces[2][f][1] + 1]
                # ReadPrev(fw.pred_meshes[2]).latent_features_padded[2][fw.pred_meshes[2].faces[2][f][2] + 1]
          /\ ReadPrev(fw.pred_meshes[2]).vertices_padded[2][fw.pred_meshes[2].faces[2][f][1] + 1]
                # ReadPrev(fw.pred_meshes[2]).vertices_padded[2][fw.pred_meshes[2].faces[2][f][2] + 1]

====
